---- MODULE Spec2Model ----
(***************************************************************************)
(* PowerTrim: the segment store (SegmentManager), the reversible commands  *)
(* and the command stack (UndoManager) of src/PowerTrimGUI.py, driven by   *)
(* the window handlers that build the commands.                            *)
(*                                                                         *)
(* A Segment object is a record; the data tuples the commands carry        *)
(* (start_frame, end_frame, color, name) are 4-tuples, as in the source.   *)
(* List indices are the source's 0-based indices; Sequences are 1-based,   *)
(* so index i of the source is element i + 1 here.                         *)
(***************************************************************************)
EXTENDS Integers, Sequences, FiniteSets, TLC

(* ------------------------------ bounds --------------------------------- *)
\* largest frame number the in/out marks and the frame spin boxes are given
MaxFrame == 2
\* the Add handler is not offered once the store holds this many segments
MaxSegs == 3
\* a handler that executes a command is not offered once the done stack
\* holds this many commands
MaxCmds == 2
\* the probed file has at most this many streams
MaxStreams == 3
\* an export covers at most this many segments
MaxClips == 2
\* the loop of trim_video_segment takes at most this many stderr lines from
\* one process
MaxLines == 2
\* the window handlers that execute a command are offered during an export
\* while the two stacks hold fewer commands than this
MaxEdits == 1
\* export requests made in one session
MaxJobs == 3

(* ------------------------------ inputs --------------------------------- *)
\* segment_colors, cut down to one entry (the source lists sixteen); the
\* project files and the color dialog bring the other colors
segment_colors == <<"red">>
\* colors the color dialog can return
DialogColors == {"green"}
\* texts of the name field; "" is the cleared field
NameTexts == {"", "intro"}
\* frame rates the player reports
FpsValues == {25}
\* rows of a CSV file: digits is TRUE when both fields pass str.isdigit,
\* a and b are then their values; any other row is skipped
CsvRow(a, b) == [digits |-> TRUE, a |-> a, b |-> b]
BadRow == [digits |-> FALSE, a |-> 0, b |-> 0]
CsvFiles ==
  { <<>>,
    <<BadRow, CsvRow(0, 2)>>,
    <<CsvRow(0, 1), CsvRow(3, 4)>>,
    <<CsvRow(2, 1)>> }
\* segment lists of project files: dicts start_frame, end_frame, color, name
ProjectFiles ==
  { <<>>,
    << <<0, 2, "red", "a">>, <<1, 3, "blue", "b">> >>,
    << <<0, 1, "red", "a">>, <<3, 4, "blue", "b">>, <<1, 3, "green", "c">> >>,
    << <<0, 1, "red", "a">>, <<0, 4, "blue", "b">>, <<3, 4, "green", "c">> >> }

(* ------------------------------ helpers -------------------------------- *)
Min(a, b) == IF a < b THEN a ELSE b
Max(a, b) == IF a > b THEN a ELSE b
Last(s) == s[Len(s)]
Front(s) == SubSeq(s, 1, Len(s) - 1)
Range(s) == {s[i] : i \in 1..Len(s)}

\* list.insert(index, x) of Python: a negative index counts from the end,
\* an index past either end is clamped
PyInsert(lst, index, x) ==
  LET n == Len(lst)
      i == IF index < 0 THEN Max(0, n + index) ELSE Min(index, n)
  IN  SubSeq(lst, 1, i) \o <<x>> \o SubSeq(lst, i + 1, n)

\* del lst[index] for 0 <= index < len(lst)
PyDel(lst, index) == SubSeq(lst, 1, index) \o SubSeq(lst, index + 2, Len(lst))

\* sorted(keys) of a list of distinct integers
RECURSIVE SortAsc(_)
SortAsc(s) ==
  IF s = <<>> THEN <<>>
  ELSE LET m == CHOOSE x \in Range(s) : \A y \in Range(s) : x <= y
       IN  <<m>> \o SortAsc(SelectSeq(s, LAMBDA y : y # m))

Reverse(s) == [i \in 1..Len(s) |-> s[Len(s) + 1 - i]]

\* sorted(indices, reverse=True)
SortDesc(s) == Reverse(SortAsc(s))

(* --------------------------- Segment, store ---------------------------- *)
DefaultName(start_frame, end_frame) ==
  "Segment [" \o ToString(start_frame) \o "-" \o ToString(end_frame) \o "]"

\* Segment.__init__: an empty name becomes the derived label
Segment(start_frame, end_frame, color, name) ==
  [start_frame |-> start_frame, end_frame |-> end_frame, color |-> color,
   name |-> IF name = "" THEN DefaultName(start_frame, end_frame) ELSE name]

\* the tuple a handler reads back from a stored segment
DataOf(seg) == <<seg.start_frame, seg.end_frame, seg.color, seg.name>>

\* Segment(data[0], data[1], data[2], name=data[3] if len(data) > 3 else "")
SegmentOfData(data) ==
  Segment(data[1], data[2], data[3], IF Len(data) > 3 THEN data[4] ELSE "")

\* The store operations return the new list and the number of
\* model_changed emissions of the call.
add_segment(segs, data, index) ==
  [segs |-> IF index = -1 THEN Append(segs, SegmentOfData(data))
            ELSE PyInsert(segs, index, SegmentOfData(data)),
   changed |-> 1]

\* remove_segment without the lower bound of its range check: del takes a
\* negative index from the end of the list
remove_segment_unguarded(segs, index) ==
  IF index < Len(segs) /\ -index <= Len(segs)
  THEN [segs |-> PyDel(segs, IF index < 0 THEN Len(segs) + index ELSE index),
        changed |-> 1]
  ELSE [segs |-> segs, changed |-> 0]

remove_segment(segs, index) ==
  IF 0 <= index /\ index < Len(segs)
  THEN [segs |-> PyDel(segs, index), changed |-> 1]
  ELSE [segs |-> segs, changed |-> 0]

update_segment(segs, index, data) ==
  IF 0 <= index /\ index < Len(segs)
  THEN [segs |-> [segs EXCEPT ![index + 1] = SegmentOfData(data)], changed |-> 1]
  ELSE [segs |-> segs, changed |-> 0]

set_segments(segs, segments_data) ==
  [segs |-> [i \in 1..Len(segments_data) |->
               Segment(segments_data[i][1], segments_data[i][2],
                       segments_data[i][3], segments_data[i][4])],
   changed |-> 1]

(* ------------------------------ commands ------------------------------- *)
\* A command object: its class and its attributes (an attribute a class
\* does not have keeps the value given here).
NoCommand ==
  [type |-> "none", index |-> -1, data |-> <<>>, old |-> <<>>, new |-> <<>>,
   indices |-> <<>>, merged_data |-> <<>>, original_data |-> <<>>,
   insert_index |-> -1]

AddSegmentCommand(data) == [NoCommand EXCEPT !.type = "Add", !.data = data]

DeleteSegmentCommand(index, data) ==
  [NoCommand EXCEPT !.type = "Delete", !.index = index, !.data = data]

UpdateSegmentCommand(index, old, new) ==
  [NoCommand EXCEPT !.type = "Update", !.index = index, !.old = old, !.new = new]

ImportSegmentsCommand(old, new) ==
  [NoCommand EXCEPT !.type = "Import", !.old = old, !.new = new]

\* __init__ keeps the indices sorted in descending order
MergeSegmentsCommand(indices, merged_data) ==
  [NoCommand EXCEPT !.type = "Merge", !.indices = SortDesc(indices),
                    !.merged_data = merged_data]

\* execute() and undo() of a command return the new list, the number of
\* model_changed emissions and the command object with its attributes
\* as the call leaves them.
Ran(r, cmd) == [segs |-> r.segs, changed |-> r.changed, cmd |-> cmd]

AddSegmentCommand_execute(cmd, segs) == Ran(add_segment(segs, cmd.data, -1), cmd)

\* undo of Add removing the first segment instead of the last
AddSegmentCommand_undo_first(cmd, segs) == Ran(remove_segment(segs, 0), cmd)

AddSegmentCommand_undo(cmd, segs) == Ran(remove_segment(segs, Len(segs) - 1), cmd)

DeleteSegmentCommand_execute(cmd, segs) == Ran(remove_segment(segs, cmd.index), cmd)

DeleteSegmentCommand_undo(cmd, segs) == Ran(add_segment(segs, cmd.data, cmd.index), cmd)

UpdateSegmentCommand_execute(cmd, segs) ==
  Ran(update_segment(segs, cmd.index, cmd.new), cmd)

UpdateSegmentCommand_undo(cmd, segs) ==
  Ran(update_segment(segs, cmd.index, cmd.old), cmd)

\* an import that adds the rows to the store instead of replacing it
ImportSegmentsCommand_execute_extend(cmd, segs) ==
  Ran([segs |-> segs \o set_segments(segs, cmd.new).segs, changed |-> 1], cmd)

ImportSegmentsCommand_execute(cmd, segs) == Ran(set_segments(segs, cmd.new), cmd)

ImportSegmentsCommand_undo(cmd, segs) == Ran(set_segments(segs, cmd.old), cmd)

\* for index in idxs: self.sm.remove_segment(index)
RECURSIVE RemoveEach(_, _)
RemoveEach(r, idxs) ==
  IF idxs = <<>> THEN r
  ELSE LET q == remove_segment(r.segs, idxs[1])
       IN  RemoveEach([segs |-> q.segs, changed |-> r.changed + q.changed],
                      Tail(idxs))

\* for i, index in enumerate(idxs): self.sm.add_segment(datas[i], index=index)
RECURSIVE AddEach(_, _, _)
AddEach(r, idxs, datas) ==
  IF idxs = <<>> THEN r
  ELSE LET q == add_segment(r.segs, datas[1], idxs[1])
       IN  AddEach([segs |-> q.segs, changed |-> r.changed + q.changed],
                   Tail(idxs), Tail(datas))

\* execute of Merge inserting at the first of the descending indices
MergeSegmentsCommand_execute_at_largest(cmd, segs) ==
  LET asc == SortAsc(cmd.indices)
      original_data == IF cmd.original_data = <<>>
                       THEN [i \in 1..Len(asc) |-> DataOf(segs[asc[i] + 1])]
                       ELSE cmd.original_data
      removed == RemoveEach([segs |-> segs, changed |-> 0], cmd.indices)
      insert_index == cmd.indices[1]
      added == add_segment(removed.segs, cmd.merged_data, insert_index)
  IN  [segs |-> added.segs, changed |-> removed.changed + added.changed,
       cmd |-> [cmd EXCEPT !.original_data = original_data,
                           !.insert_index = insert_index]]

MergeSegmentsCommand_execute(cmd, segs) ==
  LET asc == SortAsc(cmd.indices)
      original_data == IF cmd.original_data = <<>>
                       THEN [i \in 1..Len(asc) |-> DataOf(segs[asc[i] + 1])]
                       ELSE cmd.original_data
      removed == RemoveEach([segs |-> segs, changed |-> 0], cmd.indices)
      insert_index == Last(cmd.indices)
      added == add_segment(removed.segs, cmd.merged_data, insert_index)
  IN  [segs |-> added.segs, changed |-> removed.changed + added.changed,
       cmd |-> [cmd EXCEPT !.original_data = original_data,
                           !.insert_index = insert_index]]

\* undo of Merge putting the originals back from the highest index down
MergeSegmentsCommand_undo_descending(cmd, segs) ==
  LET removed == remove_segment(segs, cmd.insert_index)
  IN  Ran(AddEach(removed, cmd.indices, Reverse(cmd.original_data)), cmd)

MergeSegmentsCommand_undo(cmd, segs) ==
  LET removed == remove_segment(segs, cmd.insert_index)
  IN  Ran(AddEach(removed, SortAsc(cmd.indices), cmd.original_data), cmd)

\* dynamic dispatch cmd.execute() / cmd.undo()
Command_execute(cmd, segs) ==
  CASE cmd.type = "Add"    -> AddSegmentCommand_execute(cmd, segs)
    [] cmd.type = "Delete" -> DeleteSegmentCommand_execute(cmd, segs)
    [] cmd.type = "Update" -> UpdateSegmentCommand_execute(cmd, segs)
    [] cmd.type = "Import" -> ImportSegmentsCommand_execute(cmd, segs)
    [] cmd.type = "Merge"  -> MergeSegmentsCommand_execute(cmd, segs)

Command_undo(cmd, segs) ==
  CASE cmd.type = "Add"    -> AddSegmentCommand_undo(cmd, segs)
    [] cmd.type = "Delete" -> DeleteSegmentCommand_undo(cmd, segs)
    [] cmd.type = "Update" -> UpdateSegmentCommand_undo(cmd, segs)
    [] cmd.type = "Import" -> ImportSegmentsCommand_undo(cmd, segs)
    [] cmd.type = "Merge"  -> MergeSegmentsCommand_undo(cmd, segs)

(* ----------------------------- UndoManager ----------------------------- *)
\* The manager operations take the store list and the two stacks and return
\* them as the call leaves them, with the emissions of the call: changed
\* (model_changed), executed (command_executed) and, when
\* update_stack_states ran, the two stack-state signals.
update_stack_states(r) ==
  [r EXCEPT !.stack_signals = TRUE,
            !.undo_stack_changed = Len(r.undo_stack) > 0,
            !.redo_stack_changed = Len(r.redo_stack) > 0]

Outcome(segs, undo_stack, redo_stack, changed, executed) ==
  [segs |-> segs, undo_stack |-> undo_stack, redo_stack |-> redo_stack,
   changed |-> changed, executed |-> executed, stack_signals |-> FALSE,
   undo_stack_changed |-> FALSE, redo_stack_changed |-> FALSE]

\* execute without redo_stack.clear()
UndoManager_execute_keeps_undone(cmd, segs, undo_stack, redo_stack) ==
  LET r == Command_execute(cmd, segs)
  IN  update_stack_states(
        Outcome(r.segs, Append(undo_stack, r.cmd), redo_stack, r.changed, 1))

UndoManager_execute(cmd, segs, undo_stack, redo_stack) ==
  LET r == Command_execute(cmd, segs)
  IN  update_stack_states(
        Outcome(r.segs, Append(undo_stack, r.cmd), <<>>, r.changed, 1))

\* undo taking the oldest command of the stack
UndoManager_undo_oldest(segs, undo_stack, redo_stack) ==
  IF undo_stack # <<>>
  THEN LET r == Command_undo(Head(undo_stack), segs)
       IN  update_stack_states(
             Outcome(r.segs, Tail(undo_stack), Append(redo_stack, r.cmd),
                     r.changed, 1))
  ELSE Outcome(segs, undo_stack, redo_stack, 0, 1)

UndoManager_undo(segs, undo_stack, redo_stack) ==
  IF undo_stack # <<>>
  THEN LET r == Command_undo(Last(undo_stack), segs)
       IN  update_stack_states(
             Outcome(r.segs, Front(undo_stack), Append(redo_stack, r.cmd),
                     r.changed, 1))
  ELSE Outcome(segs, undo_stack, redo_stack, 0, 1)

UndoManager_redo(segs, undo_stack, redo_stack) ==
  IF redo_stack # <<>>
  THEN LET r == Command_execute(Last(redo_stack), segs)
       IN  update_stack_states(
             Outcome(r.segs, Append(undo_stack, r.cmd), Front(redo_stack),
                     r.changed, 1))
  ELSE Outcome(segs, undo_stack, redo_stack, 0, 1)

\* clear without redo_stack.clear()
UndoManager_clear_done_only(segs, undo_stack, redo_stack) ==
  update_stack_states(Outcome(segs, <<>>, redo_stack, 0, 0))

UndoManager_clear(segs, undo_stack, redo_stack) ==
  update_stack_states(Outcome(segs, <<>>, <<>>, 0, 0))

(* -------------------------------- state -------------------------------- *)
VARIABLES
  segments,                  \* SegmentManager.segments
  undo_stack,                \* UndoManager.undo_stack (done)
  redo_stack,                \* UndoManager.redo_stack (undone)
  actions_enabled,           \* the window's edit actions, as set_player_controls_enabled left them
  undo_enabled,              \* actions['undo'].isEnabled()
  redo_enabled,              \* actions['redo'].isEnabled()
  is_project_dirty,          \* ProTrimmerWindow.is_project_dirty
  video_path,                \* TRUE once a video path is set
  fps,                       \* ProTrimmerWindow.fps
  color_idx,                 \* _color_idx, kept modulo len(segment_colors)
  pending_project_segments,  \* [some |-> FALSE] is None
  last,                      \* the call made by the last step and what it emitted
  done_marks,                \* per command of undo_stack: the list before and after its first execute
  undone_marks,              \* the same for the commands of redo_stack
  all_streams,               \* the streams of the probed file (video_meta["streams"])
  selected_track_ids,        \* settings["selected_track_ids"]
  lang_priority,             \* settings["lang_priority"]
  mapping_args,              \* the list generate_ffmpeg_mapping_args returned, <<>> before the call
  settings,                  \* ExportWorker.settings, the settings of the job
  pc,                        \* where the worker thread stands in ExportWorker.run / run_powertrim_job
  is_cancelled,              \* ExportWorker._is_cancelled
  clip_index,                \* i of the loop over segments_in_seconds
  lines_read,                \* stderr lines the loop of trim_video_segment has taken from the running process
  crop_params,               \* crop_params of run_powertrim_job, "" before it is set
  launched,                  \* the external processes started so far, in order
  events,                    \* the signals emitted and message boxes shown so far, in order
  result,                    \* what run_powertrim_job returned, "" before it returns
  checks,                    \* the reads of _is_cancelled at the segment and merge checks
  files,                     \* the files and directories the job made that exist
  calls,                     \* the calls run_powertrim_job made to the functions of the engine
  frame_rate,                \* frame_rate of run_powertrim_job, -1 before the probe returned
  manifest,                  \* the lines merge_videos wrote to its manifest, as the files they name
  stop_queued,               \* TRUE while a call of stop, queued by the dialog's cancelled signal, waits for the worker's thread
  export_thread,             \* ProTrimmerWindow.export_thread: 0 for None, else the number of the QThread
  threads,                   \* one state per QThread that handle_export_video created
  aborted                    \* TRUE once Qt has aborted the application

\* the state of the window and its managers
window_vars == <<segments, undo_stack, redo_stack, actions_enabled, undo_enabled,
                 redo_enabled, is_project_dirty, video_path, fps, color_idx,
                 pending_project_segments, last, done_marks, undone_marks>>

\* the state of the export engine
mapper_vars == <<all_streams, selected_track_ids, lang_priority, mapping_args>>
job_vars == <<settings, pc, is_cancelled, clip_index, lines_read, crop_params,
              launched, events, result, checks, files, calls, frame_rate, manifest,
              stop_queued>>

\* the export threads of the window
session_vars == <<export_thread, threads, aborted>>

engine_vars == <<mapper_vars, job_vars, session_vars>>

vars == <<window_vars, engine_vars>>

None == [some |-> FALSE, segments |-> <<>>]
Some(lst) == [some |-> TRUE, segments |-> lst]

\* The record of a call: the handler or method, the command object it
\* handed to the manager (or the manager popped), the emissions of the call
\* (model_changed, command_executed) and the length of redo_stack before it.
\* index and data are the arguments of a direct store call.
Call(op, cmd, changed, executed) ==
  [op |-> op, cmd |-> cmd, changed |-> changed, executed |-> executed,
   undone_before |-> Len(redo_stack), index |-> -1, data |-> <<>>]

\* settings before the export dialog was accepted
NoSettings ==
  [segments_raw |-> <<>>, merge |-> FALSE, autocrop |-> FALSE, video_mode |-> "",
   output_template |-> "", mode |-> ""]

\* no worker exists
JobIdle ==
  /\ settings = NoSettings
  /\ pc = "idle"
  /\ is_cancelled = FALSE
  /\ clip_index = 0
  /\ lines_read = 0
  /\ crop_params = ""
  /\ launched = <<>>
  /\ events = <<>>
  /\ result = ""
  /\ checks = <<>>
  /\ files = {}
  /\ calls = <<>>
  /\ frame_rate = -1
  /\ manifest = <<>>
  /\ stop_queued = FALSE

\* no export thread was created yet
SessionIdle ==
  /\ export_thread = 0
  /\ threads = <<>>
  /\ aborted = FALSE

\* no export was asked for yet
EngineIdle ==
  /\ all_streams = <<>>
  /\ selected_track_ids = {}
  /\ lang_priority = <<>>
  /\ mapping_args = <<>>
  /\ JobIdle
  /\ SessionIdle

\* the window after construction
WindowInit ==
  /\ segments = <<>>
  /\ undo_stack = <<>>
  /\ redo_stack = <<>>
  /\ actions_enabled = FALSE
  /\ undo_enabled = FALSE
  /\ redo_enabled = FALSE
  /\ is_project_dirty = FALSE
  /\ video_path = FALSE
  /\ fps = 0
  /\ color_idx = 0
  /\ pending_project_segments = None
  /\ last = [op |-> "init", cmd |-> NoCommand, changed |-> 0, executed |-> 0,
             undone_before |-> 0, index |-> -1, data |-> <<>>]
  /\ done_marks = <<>>
  /\ undone_marks = <<>>

Init == WindowInit /\ EngineIdle

\* mark_as_dirty(dirty)
mark_as_dirty(dirty) == is_project_dirty' = dirty

\* The slots connected in setup_connections take the emissions of a manager
\* call r: the stack-state signals set the two actions, command_executed
\* marks the project dirty.
Deliver(r) ==
  /\ segments' = r.segs
  /\ undo_stack' = r.undo_stack
  /\ redo_stack' = r.redo_stack
  /\ undo_enabled' = IF r.stack_signals THEN r.undo_stack_changed ELSE undo_enabled
  /\ redo_enabled' = IF r.stack_signals THEN r.redo_stack_changed ELSE redo_enabled
  /\ IF r.executed > 0 THEN mark_as_dirty(TRUE) ELSE UNCHANGED is_project_dirty

\* self.undo_manager.execute(cmd) from a handler
Execute(cmd, op) ==
  LET r == UndoManager_execute(cmd, segments, undo_stack, redo_stack)
  IN  /\ Deliver(r)
      /\ last' = Call(op, cmd, r.changed, r.executed)
      /\ done_marks' = Append(done_marks, [pre |-> segments, post |-> r.segs])
      /\ undone_marks' = <<>>

\* a handler that returns without touching the store or the stacks
Rejected(op) ==
  /\ last' = Call(op, NoCommand, 0, 0)
  /\ UNCHANGED <<segments, undo_stack, redo_stack, undo_enabled, redo_enabled,
                 is_project_dirty, done_marks, undone_marks>>

(* ------------------------------ handlers ------------------------------- *)
\* _load_video(path)
LoadVideoBody(op) ==
  LET s == set_segments(segments, <<>>)
      r == UndoManager_clear(s.segs, undo_stack, redo_stack)
  IN  /\ actions_enabled' = FALSE
      /\ video_path' = TRUE
      /\ fps' = 0
      /\ color_idx' = 0
      /\ segments' = r.segs
      /\ undo_stack' = r.undo_stack
      /\ redo_stack' = r.redo_stack
      /\ undo_enabled' = r.undo_stack_changed
      /\ redo_enabled' = r.redo_stack_changed
      /\ mark_as_dirty(FALSE)
      /\ last' = Call(op, NoCommand, s.changed, r.executed)
      /\ done_marks' = <<>>
      /\ undone_marks' = <<>>

handle_open_video ==
  /\ LoadVideoBody("_load_video")
  /\ UNCHANGED <<pending_project_segments, engine_vars>>

handle_open_project_path ==
  \E p \in ProjectFiles :
    /\ pending_project_segments' = Some(p)
    /\ LoadVideoBody("_load_video")
    /\ UNCHANGED engine_vars

\* on_duration_update(value), with self.fps as given
DurationUpdateBody(f, op) ==
  IF f > 0
  THEN /\ actions_enabled' = TRUE
       /\ IF pending_project_segments.some
          THEN LET s == set_segments(segments, pending_project_segments.segments)
                   r == UndoManager_clear(s.segs, undo_stack, redo_stack)
               IN  /\ segments' = r.segs
                   /\ undo_stack' = r.undo_stack
                   /\ redo_stack' = r.redo_stack
                   /\ undo_enabled' = r.undo_stack_changed
                   /\ redo_enabled' = r.redo_stack_changed
                   /\ pending_project_segments' = None
                   /\ last' = Call("apply_project", NoCommand, s.changed, r.executed)
                   /\ done_marks' = <<>>
                   /\ undone_marks' = <<>>
          ELSE /\ undo_enabled' = TRUE
               /\ redo_enabled' = TRUE
               /\ last' = Call(op, NoCommand, 0, 0)
               /\ UNCHANGED <<segments, undo_stack, redo_stack,
                              pending_project_segments, done_marks, undone_marks>>
  ELSE /\ last' = Call(op, NoCommand, 0, 0)
       /\ UNCHANGED <<segments, undo_stack, redo_stack, actions_enabled,
                      undo_enabled, redo_enabled, pending_project_segments,
                      done_marks, undone_marks>>

on_duration_update ==
  /\ video_path
  /\ DurationUpdateBody(fps, "on_duration_update")
  /\ UNCHANGED <<is_project_dirty, video_path, fps, color_idx, engine_vars>>

on_fps_update ==
  \E value \in FpsValues :
    /\ video_path
    /\ fps' = value
    /\ DurationUpdateBody(value, "on_duration_update")
    /\ UNCHANGED <<is_project_dirty, video_path, color_idx, engine_vars>>

\* set_out_point -> add_segment_from_in_out, in_point and current_frame given
add_segment_from_in_out ==
  \E in_point \in 0..MaxFrame, out_point \in 0..MaxFrame :
    /\ actions_enabled
    /\ Len(segments) < MaxSegs
    /\ Len(undo_stack) < MaxCmds
    /\ in_point >= 0 /\ out_point > in_point
    /\ LET color == segment_colors[(color_idx % Len(segment_colors)) + 1]
           data == <<in_point, out_point, color, "">>
       IN  Execute(AddSegmentCommand(data), "add_segment_from_in_out")
    /\ color_idx' = (color_idx + 1) % Len(segment_colors)
    /\ UNCHANGED <<actions_enabled, video_path, fps, pending_project_segments,
                   engine_vars>>

\* delete_selected_segment, row the row of the first selected item
delete_selected_segment ==
  \E row \in 0..(Len(segments) - 1) :
    /\ actions_enabled
    /\ Len(undo_stack) < MaxCmds
    /\ row >= 0
    /\ Execute(DeleteSegmentCommand(row, DataOf(segments[row + 1])),
               "delete_selected_segment")
    /\ UNCHANGED <<actions_enabled, video_path, fps, color_idx,
                   pending_project_segments, engine_vars>>

\* The values of the three property fields when one of them finishes
\* editing: on_segment_selection_changed loaded them from the selected
\* segment, and the sender holds what the user typed.
FieldEdits(seg) ==
  {[start |-> v, end |-> seg.end_frame, name |-> seg.name] : v \in 0..MaxFrame}
    \cup {[start |-> seg.start_frame, end |-> v, name |-> seg.name] : v \in 0..MaxFrame}
    \cup {[start |-> seg.start_frame, end |-> seg.end_frame, name |-> t] : t \in NameTexts}

\* apply_properties_changes, row the current row
apply_properties_changes ==
  \E row \in 0..(Len(segments) - 1) :
    \E f \in FieldEdits(segments[row + 1]) :
      /\ actions_enabled
      /\ Len(undo_stack) < MaxCmds
      /\ LET new_start == f.start
             new_end == f.end
             new_name == f.name
         IN  IF new_start >= new_end
             THEN Rejected("apply_properties_changes")
             ELSE LET old_seg == segments[row + 1]
                      old_data == DataOf(old_seg)
                      new_data == <<new_start, new_end, old_seg.color, new_name>>
                  IN  IF old_data # new_data
                      THEN Execute(UpdateSegmentCommand(row, old_data, new_data),
                                   "apply_properties_changes")
                      ELSE Rejected("apply_properties_changes")
      /\ UNCHANGED <<actions_enabled, video_path, fps, color_idx,
                     pending_project_segments, engine_vars>>

\* change_selected_segment_color with one selected item and a valid color
change_selected_segment_color ==
  \E row \in 0..(Len(segments) - 1), new_color \in DialogColors :
    /\ actions_enabled
    /\ Len(undo_stack) < MaxCmds
    /\ LET old_seg == segments[row + 1]
           old_data == DataOf(old_seg)
           new_data == <<old_seg.start_frame, old_seg.end_frame, new_color,
                         old_seg.name>>
       IN  Execute(UpdateSegmentCommand(row, old_data, new_data),
                   "change_selected_segment_color")
    /\ UNCHANGED <<actions_enabled, video_path, fps, color_idx,
                   pending_project_segments, engine_vars>>

\* sorted(items, key=lambda x: x['segment'].start_frame): a stable sort of
\* the selected rows by the start frame of their segments
RECURSIVE InsertByStart(_, _, _)
InsertByStart(sorted, row, segs) ==
  IF sorted = <<>> THEN <<row>>
  ELSE IF segs[row + 1].start_frame < segs[sorted[1] + 1].start_frame
       THEN <<row>> \o sorted
       ELSE <<sorted[1]>> \o InsertByStart(Tail(sorted), row, segs)

RECURSIVE SortByStart(_, _)
SortByStart(rows, segs) ==
  IF rows = <<>> THEN <<>>
  ELSE InsertByStart(SortByStart(Front(rows), segs), Last(rows), segs)

\* max(s['segment'].end_frame for s in segs)
RECURSIVE MaxEnd(_, _)
MaxEnd(rows, segs) ==
  IF Len(rows) = 1 THEN segs[rows[1] + 1].end_frame
  ELSE Max(segs[rows[1] + 1].end_frame, MaxEnd(Tail(rows), segs))

\* the gap test off by one frame: a neighbour starting two frames after the
\* end passes
Adjacent_loose(sorted, segs) ==
  \A i \in 1..(Len(sorted) - 1) :
    ~(segs[sorted[i] + 1].end_frame < segs[sorted[i + 1] + 1].start_frame - 2)

\* the loop of merge_selected_segments finds no gap between neighbours
Adjacent(sorted, segs) ==
  \A i \in 1..(Len(sorted) - 1) :
    ~(segs[sorted[i] + 1].end_frame < segs[sorted[i + 1] + 1].start_frame - 1)

MergedName(new_start, new_end) ==
  "Merged [" \o ToString(new_start) \o "-" \o ToString(new_end) \o "]"

\* the merged_data tuple merge_selected_segments builds
MergedData(sorted, segs) ==
  LET new_start == segs[sorted[1] + 1].start_frame
      new_end == MaxEnd(sorted, segs)
  IN  <<new_start, new_end, segs[sorted[1] + 1].color,
        MergedName(new_start, new_end)>>

\* selectedItems(): distinct rows of the list view, in any order
Selections(n) ==
  {s \in UNION {[1..k -> 0..(n - 1)] : k \in 0..n} :
     \A i, j \in 1..Len(s) : i # j => s[i] # s[j]}

\* What merge_selected_segments does with the selection sel: it returns
\* early (accepted FALSE) or builds the command it hands to execute.
MergeRequest(sel, segs) ==
  IF Len(sel) < 2
  THEN [accepted |-> FALSE, cmd |-> NoCommand]
  ELSE LET sorted == SortByStart(sel, segs)
       IN  IF ~Adjacent(sorted, segs)
           THEN [accepted |-> FALSE, cmd |-> NoCommand]
           ELSE [accepted |-> TRUE,
                 cmd |-> MergeSegmentsCommand(sorted, MergedData(sorted, segs))]

merge_selected_segments ==
  \E sel \in Selections(Len(segments)) :
    /\ actions_enabled
    /\ Len(undo_stack) < MaxCmds
    /\ LET m == MergeRequest(sel, segments)
       IN  IF m.accepted
           THEN Execute(m.cmd, "merge_selected_segments")
           ELSE Rejected("merge_selected_segments")
    /\ UNCHANGED <<actions_enabled, video_path, fps, color_idx,
                   pending_project_segments, engine_vars>>

\* the rows handle_import_csv keeps: row i of the file, when it holds two
\* digit strings, with color segment_colors[i % len(segment_colors)]
RECURSIVE CsvSegments(_, _)
CsvSegments(file, i) ==
  IF file = <<>> THEN <<>>
  ELSE (IF file[1].digits
        THEN << <<file[1].a, file[1].b,
                  segment_colors[(i % Len(segment_colors)) + 1], "">> >>
        ELSE <<>>) \o CsvSegments(Tail(file), i + 1)

handle_import_csv ==
  \E file \in CsvFiles :
    /\ actions_enabled
    /\ Len(undo_stack) < MaxCmds
    /\ IF ~(video_path /\ fps > 0)
       THEN Rejected("handle_import_csv")
       ELSE LET old_segments == [i \in 1..Len(segments) |-> DataOf(segments[i])]
                new_segments_for_cmd == CsvSegments(file, 0)
            IN  Execute(ImportSegmentsCommand(old_segments, new_segments_for_cmd),
                        "handle_import_csv")
    /\ UNCHANGED <<actions_enabled, video_path, fps, color_idx,
                   pending_project_segments, engine_vars>>

\* actions['undo'].triggered -> UndoManager.undo
undo ==
  /\ undo_enabled
  /\ LET r == UndoManager_undo(segments, undo_stack, redo_stack)
     IN  /\ Deliver(r)
         /\ last' = Call("undo", IF undo_stack # <<>> THEN Last(undo_stack)
                                  ELSE NoCommand, r.changed, r.executed)
  /\ IF undo_stack # <<>>
     THEN /\ done_marks' = Front(done_marks)
          /\ undone_marks' = Append(undone_marks, Last(done_marks))
     ELSE UNCHANGED <<done_marks, undone_marks>>
  /\ UNCHANGED <<actions_enabled, video_path, fps, color_idx,
                 pending_project_segments, engine_vars>>

\* actions['redo'].triggered -> UndoManager.redo
redo ==
  /\ redo_enabled
  /\ LET r == UndoManager_redo(segments, undo_stack, redo_stack)
     IN  /\ Deliver(r)
         /\ last' = Call("redo", IF redo_stack # <<>> THEN Last(redo_stack)
                                  ELSE NoCommand, r.changed, r.executed)
  /\ IF redo_stack # <<>>
     THEN /\ done_marks' = Append(done_marks, Last(undone_marks))
          /\ undone_marks' = Front(undone_marks)
     ELSE UNCHANGED <<done_marks, undone_marks>>
  /\ UNCHANGED <<actions_enabled, video_path, fps, color_idx,
                 pending_project_segments, engine_vars>>

Next ==
  \/ handle_open_video
  \/ handle_open_project_path
  \/ on_duration_update
  \/ on_fps_update
  \/ add_segment_from_in_out
  \/ delete_selected_segment
  \/ apply_properties_changes
  \/ change_selected_segment_color
  \/ merge_selected_segments
  \/ handle_import_csv
  \/ undo
  \/ redo

Spec == Init /\ [][Next]_vars

(* ------------------- the store called directly ------------------------- *)
\* SegmentManager's methods called with any index, in range or not.
StoreData == { <<0, 1, "red", "">>, <<1, 2, "blue", "cut">> }
StoreIndices == (-2)..(MaxSegs + 1)

StoreCall(op, index, data, r) ==
  /\ segments' = r.segs
  /\ last' = [Call(op, NoCommand, r.changed, 0) EXCEPT !.index = index,
                                                        !.data = data]
  /\ UNCHANGED <<undo_stack, redo_stack, actions_enabled, undo_enabled,
                 redo_enabled, is_project_dirty, video_path, fps, color_idx,
                 pending_project_segments, done_marks, undone_marks, engine_vars>>

sm_add_segment ==
  \E data \in StoreData, index \in StoreIndices :
    /\ Len(segments) < MaxSegs
    /\ StoreCall("add_segment", index, data, add_segment(segments, data, index))

sm_remove_segment ==
  \E index \in StoreIndices :
    StoreCall("remove_segment", index, <<>>, remove_segment(segments, index))

sm_update_segment ==
  \E data \in StoreData, index \in StoreIndices :
    StoreCall("update_segment", index, data, update_segment(segments, index, data))

sm_set_segments ==
  \E lst \in {<<>>, <<<<0, 2, "green", "all">>>>} :
    StoreCall("set_segments", -1, <<>>, set_segments(segments, lst))

NextStore ==
  \/ sm_add_segment
  \/ sm_remove_segment
  \/ sm_update_segment
  \/ sm_set_segments

SpecStore == Init /\ [][NextStore]_vars

(* ----------------------------- track mapper ---------------------------- *)
\* A stream of the probed file: index and id as get_video_metadata sets them
\* (id is the stream_identifier when the probe reports one, else the index),
\* its codec_type, and language, the value of tags.language; NoTag when the
\* stream carries no language tag.
NoTag == "<no tag>"
Stream(index, id, codec_type, language) ==
  [index |-> index, id |-> id, codec_type |-> codec_type, language |-> language]

\* the kinds of stream the probe reports; the language of a video stream is
\* never read
StreamKinds ==
  {[codec_type |-> "video", language |-> NoTag]}
    \cup {[codec_type |-> t, language |-> l] :
            t \in {"audio", "subtitle"}, l \in {"eng", "JPN", NoTag}}

\* stream lists of up to MaxStreams streams; ids follow the list order or,
\* given by stream_identifier, run against it
StreamLists ==
  UNION { { [i \in 1..n |-> Stream(i - 1, IF rev THEN n - i ELSE i - 1,
                                   kinds[i].codec_type, kinds[i].language)] :
              kinds \in [1..n -> StreamKinds], rev \in BOOLEAN } :
          n \in 0..MaxStreams }

\* language priorities as get_track_settings hands them on: lower-case
\* tags, here without repetition and at most two
Priorities ==
  {p \in UNION {[1..k -> {"jpn", "eng", "und"}] : k \in 0..2} :
     \A i, j \in 1..Len(p) : i # j => p[i] # p[j]}

\* str.lower() on the language tags of the model
Lower(lang) ==
  CASE lang = "JPN" -> "jpn"
    [] lang = "ENG" -> "eng"
    [] OTHER -> lang

\* list.index(x): the 0-based position of the first x; -1 stands for the
\* ValueError of a list without x
PyIndex(lst, x) ==
  IF \E i \in 1..Len(lst) : lst[i] = x
  THEN (CHOOSE i \in 1..Len(lst) :
          lst[i] = x /\ \A j \in 1..(i - 1) : lst[j] # x) - 1
  ELSE -1

\* sort_key without the stream id: tracks of one language keep list order
sort_key_language_only(track, prio) ==
  LET lang == Lower(IF track.language = NoTag THEN "und" ELSE track.language)
      pos == PyIndex(prio, lang)
  IN  IF pos >= 0 THEN <<pos, 0>> ELSE <<Len(prio), 0>>

\* sort_key(track): tags.language, 'und' when missing, lower-cased; its
\* position in lang_priority, len(lang_priority) on ValueError; then the id
sort_key(track, prio) ==
  LET lang == Lower(IF track.language = NoTag THEN "und" ELSE track.language)
      pos == PyIndex(prio, lang)
  IN  IF pos >= 0 THEN <<pos, track.id>> ELSE <<Len(prio), track.id>>

\* the order of Python on 2-tuples of integers
KeyLess(a, b) == a[1] < b[1] \/ (a[1] = b[1] /\ a[2] < b[2])

\* tracks.sort(key=sort_key): a stable sort
RECURSIVE InsertByKey(_, _, _)
InsertByKey(sorted, track, prio) ==
  IF sorted = <<>> THEN <<track>>
  ELSE IF KeyLess(sort_key(track, prio), sort_key(sorted[1], prio))
       THEN <<track>> \o sorted
       ELSE <<sorted[1]>> \o InsertByKey(Tail(sorted), track, prio)

RECURSIVE SortByKey(_, _)
SortByKey(tracks, prio) ==
  IF tracks = <<>> THEN <<>>
  ELSE InsertByKey(SortByKey(Front(tracks), prio), Last(tracks), prio)

\* f"0:{track['index']}"
MapArg(track) == "0:" \o ToString(track.index)

\* the video streams kept only when their id is selected
video_streams_selected(streams, selected) ==
  SelectSeq(streams, LAMBDA t : t.codec_type = "video" /\ t.id \in selected)

\* [t for t in all_streams if t.get('codec_type') == 'video']; the selection
\* is not consulted
video_streams(streams, selected) ==
  SelectSeq(streams, LAMBDA t : t.codec_type = "video")

\* the tracks of one type with their id in selected_track_ids, sorted
selected_tracks(streams, codec_type, selected, prio) ==
  SortByKey(SelectSeq(streams, LAMBDA t : t.codec_type = codec_type
                                          /\ t.id \in selected), prio)

RECURSIVE VideoArgs(_)
VideoArgs(tracks) ==
  IF tracks = <<>> THEN <<>>
  ELSE <<"-map", MapArg(tracks[1])>> \o VideoArgs(Tail(tracks))

\* the loop over the tracks of one type with every track marked default
RECURSIVE TrackArgs_all_default(_, _, _)
TrackArgs_all_default(tracks, letter, i) ==
  IF tracks = <<>> THEN <<>>
  ELSE <<"-map", MapArg(tracks[1]),
         "-disposition:" \o letter \o ":" \o ToString(i), "default">>
         \o TrackArgs_all_default(Tail(tracks), letter, i + 1)

\* for i, track in enumerate(tracks): the map and the disposition of track i
RECURSIVE TrackArgs(_, _, _)
TrackArgs(tracks, letter, i) ==
  IF tracks = <<>> THEN <<>>
  ELSE <<"-map", MapArg(tracks[1]),
         "-disposition:" \o letter \o ":" \o ToString(i),
         IF i = 0 THEN "default" ELSE "0">>
         \o TrackArgs(Tail(tracks), letter, i + 1)

\* the branch of one type with nothing emitted for an empty list
TypeArgs_silent(tracks, letter) ==
  IF tracks # <<>> THEN TrackArgs(tracks, letter, 0) ELSE <<>>

\* if tracks: ... else: args.append("-an") (or "-sn")
TypeArgs(tracks, letter) ==
  IF tracks # <<>> THEN TrackArgs(tracks, letter, 0) ELSE <<"-" \o letter \o "n">>

generate_ffmpeg_mapping_args(streams, selected, prio) ==
  VideoArgs(video_streams(streams, selected))
    \o TypeArgs(selected_tracks(streams, "audio", selected, prio), "a")
    \o TypeArgs(selected_tracks(streams, "subtitle", selected, prio), "s")

\* The mapper called on any stream list, selection and priority.
MapperIdle ==
  /\ all_streams \in StreamLists
  /\ selected_track_ids \in SUBSET {all_streams[i].id : i \in 1..Len(all_streams)}
  /\ lang_priority \in Priorities
  /\ mapping_args = <<>>

InitMap == WindowInit /\ MapperIdle /\ JobIdle /\ SessionIdle

map_tracks ==
  /\ mapping_args' = generate_ffmpeg_mapping_args(all_streams, selected_track_ids,
                                                  lang_priority)
  /\ UNCHANGED <<window_vars, all_streams, selected_track_ids, lang_priority,
                 job_vars, session_vars>>

NextMap == map_tracks

SpecMap == InitMap /\ [][NextMap]_vars

(* ------------------------------ export job ----------------------------- *)
\* the trim strategies of the export dialog
VideoModes == {"copy", "smart-cut", "re-encode", "ffv1"}

\* the two templates the dialog fills in and one with an unknown placeholder
default_merged == "{filename}_merged"
default_separate == "{filename}_segment_{num:03d}"
BogusTemplate == "{filename}_{bogus}"
Templates == {default_merged, default_separate, BogusTemplate}

\* the replacement fields of a template, in order of appearance
Placeholders(template) ==
  CASE template = default_merged -> <<"filename">>
    [] template = default_separate -> <<"filename", "num">>
    [] template = BogusTemplate -> <<"filename", "bogus">>
    [] OTHER -> <<>>

\* the stem of the input video, its suffix, and the targets the file
\* dialogs return
InputStem == "video"
InputSuffix == ".mov"
OutputFile == "/out/video_merged.mp4"
OutputDir == "/out"

\* f"{num:03d}" for the clip numbers of the model
Pad3(num) ==
  IF num < 10 THEN "00" \o ToString(num)
  ELSE IF num < 100 THEN "0" \o ToString(num) ELSE ToString(num)

\* template.format(**data): raised with the first field that data does not
\* hold, else the text with the fields replaced
StrFormat(template, keys, num) ==
  LET fields == Placeholders(template)
      missing == SelectSeq(fields, LAMBDA f : f \notin keys)
  IN  IF missing # <<>>
      THEN [raised |-> TRUE, key |-> missing[1], text |-> ""]
      ELSE [raised |-> FALSE, key |-> "",
            text |-> CASE template = default_merged -> InputStem \o "_merged"
                       [] template = default_separate ->
                            InputStem \o "_segment_" \o Pad3(num)
                       [] OTHER -> template]

\* the keys of seg_data: base_template_data with num, start and end
SegDataKeys == {"filename", "resolution", "date", "time", "num", "start", "end"}

\* format_output_filename(output_template, seg_data): KeyError becomes
\* ValueError
format_output_filename(template, num) == StrFormat(template, SegDataKeys, num)

\* video_extension
video_extension(video_mode) ==
  IF video_mode = "ffv1" THEN ".mkv"
  ELSE IF video_mode = "re-encode" THEN ".mp4" ELSE InputSuffix

\* an external process: the tool, the clip it works on (0 when it works on
\* the whole file) and the thread that started it
Proc(tool, clip, ctx) == [tool |-> tool, clip |-> clip, ctx |-> ctx]

\* an emitted signal with its arguments
Emit(signal, args) == [signal |-> signal, args |-> args]

\* a message box of the window
Box(kind, text) == [signal |-> "QMessageBox." \o kind, args |-> <<text>>]

\* the frame ranges of the segments of the store, segment k of the project
\* covering a hundred frames
ClipData(k) == <<100 * (k - 1), 100 * k, "red", "">>
ExportStores ==
  { set_segments(<<>>, [k \in 1..n |-> ClipData(k)]).segs : n \in 0..MaxClips }

\* settings["segments_raw"] of handle_export_video
SegmentsRaw(segs) == [k \in 1..Len(segs) |-> <<segs[k].start_frame, segs[k].end_frame>>]

\* what get_settings can return: autocrop is unchecked outside the
\* re-encoding modes, and a default template follows the merge box
DialogSettings ==
  {s \in [video_mode : VideoModes, merge : BOOLEAN, autocrop : BOOLEAN,
          output_template : Templates] :
     /\ s.autocrop => s.video_mode \in {"re-encode", "ffv1"}
     /\ s.output_template \in {default_merged, default_separate}
          => s.output_template = (IF s.merge THEN default_merged ELSE default_separate)}

\* any settings a caller of the engine can pass
EngineSettings ==
  [video_mode : VideoModes, merge : BOOLEAN, autocrop : BOOLEAN,
   output_template : Templates]

\* the streams ffprobe reports for the input video, and the track settings
\* of the dialog
JobStreams ==
  <<Stream(0, 0, "video", NoTag), Stream(1, 1, "audio", "jpn"),
    Stream(2, 2, "audio", "eng")>>
JobSelected == {1, 2}
JobPriority == <<"eng", "jpn">>

\* the stderr lines of a running ffmpeg: NoTime for a line without time=,
\* else the elapsed time it reports, in frames of the input
NoTime == -1
StderrLines == {NoTime, 50, 150}

\* The window over a loaded video with the segments segs.
WindowLoaded(segs) ==
  /\ segments = segs
  /\ undo_stack = <<>>
  /\ redo_stack = <<>>
  /\ actions_enabled = TRUE
  /\ undo_enabled = FALSE
  /\ redo_enabled = FALSE
  /\ is_project_dirty = FALSE
  /\ video_path = TRUE
  /\ fps = 25
  /\ color_idx = 0
  /\ pending_project_segments = None
  /\ last = [op |-> "apply_project", cmd |-> NoCommand, changed |-> 1, executed |-> 0,
             undone_before |-> 0, index |-> -1, data |-> <<>>]
  /\ done_marks = <<>>
  /\ undone_marks = <<>>

InitJob ==
  /\ \E segs \in ExportStores : WindowLoaded(segs)
  /\ EngineIdle

\* a step of the worker thread: where it stands next, the processes it
\* started and the signals it emitted
Step(next_pc, procs, sigs) ==
  /\ pc' = next_pc
  /\ launched' = launched \o procs
  /\ events' = events \o sigs

\* an exception leaves run_powertrim_job: ExportWorker.run emits error
Raise(message, procs, sigs) ==
  /\ Step("done", procs, sigs \o <<Emit("error", <<message>>)>>)
  /\ UNCHANGED result

\* a file or directory: the directory it lies in and its name
File(dir, name) == [dir |-> dir, name |-> name]

\* the directory of tempfile, the directory TemporaryDirectory makes in it
\* and the file NamedTemporaryFile makes in it
SystemTemp == "/tmp"
TempDir == "/tmp/tmpdir"
TempDirEntry == File(SystemTemp, "tmpdir")
ManifestFile == File(SystemTemp, "manifest.txt")

\* the directory of the with statement kept when the block is left
TemporaryDirectory_exit_keeps(fs) == fs

\* the with statement of a merging job is left, by return or by an
\* exception: the directory goes with all it holds
TemporaryDirectory_exit(fs) ==
  IF settings.merge THEN {f \in fs : f.dir # TempDir /\ f # TempDirEntry} ELSE fs

\* the manifest left in place
unlink_skipped(fs, f) == fs

\* Path(manifest_path).unlink()
unlink(fs, f) == fs \ {f}

\* a call run_powertrim_job makes: the function, the clip it is made for (0
\* when for the whole job) and, of a trim, the frames of the segment, the
\* crop filter and the mapping directives it is given
EngineCall(fn, clip, range, crop_filter, mapping) ==
  [fn |-> fn, clip |-> clip, range |-> range, crop_filter |-> crop_filter,
   mapping_args |-> mapping]

\* the list read from the store at each use
segments_raw_live == SegmentsRaw(segments)

\* segments_raw of run_powertrim_job: the list handle_export_video built
segments_raw == settings.segments_raw

\* the worker is created with settings and its thread is started
StartWorker(s, raw) ==
  /\ settings' = [segments_raw |-> raw, merge |-> s.merge,
                  autocrop |-> s.autocrop, video_mode |-> s.video_mode,
                  output_template |-> s.output_template, mode |-> "frames"]
  /\ selected_track_ids' = JobSelected
  /\ lang_priority' = JobPriority
  /\ pc' = "run"

\* the empty check passed by every list
NoSegments_never(raw) == FALSE

\* "if not segments_raw"
NoSegments(raw) == raw = <<>>

\* handle_export_video with the dialog returning one of the settings of
\* choices: the first export request of the session
ExportRequest(choices) ==
  /\ pc = "idle" /\ launched = <<>> /\ events = <<>>
  /\ UNCHANGED <<window_vars, session_vars, frame_rate, manifest, stop_queued,
                 all_streams, mapping_args, is_cancelled,
                 clip_index, lines_read, crop_params, result, checks, files, calls>>
  /\ IF NoSegments(segments)
     THEN /\ events' = Append(events, Box("warning", "There are no segments to export."))
          /\ UNCHANGED <<settings, selected_track_ids, lang_priority, pc, launched>>
     ELSE IF ~video_path
     THEN UNCHANGED <<settings, selected_track_ids, lang_priority, pc, launched, events>>
     ELSE \E probe_ok \in BOOLEAN, accepted \in BOOLEAN, s \in choices,
             target_chosen \in BOOLEAN :
            /\ launched' = Append(launched, Proc("ffprobe", 0, "window"))
            /\ IF ~probe_ok
               THEN /\ events' = Append(events,
                                   Box("critical", "Could not get video metadata for export"))
                    /\ UNCHANGED <<settings, selected_track_ids, lang_priority, pc>>
               ELSE IF \/ ~accepted
                       \/ s.merge /\ StrFormat(s.output_template, {"filename"}, 0).raised
                       \/ ~target_chosen
               THEN UNCHANGED <<settings, selected_track_ids, lang_priority, pc, events>>
               ELSE /\ StartWorker(s, SegmentsRaw(segments))
                    /\ UNCHANGED events

\* handle_export_video
handle_export_video == ExportRequest(DialogSettings)

\* a caller of the engine other than the window runs a worker on settings of
\* its own
run_from_caller ==
  /\ pc = "idle" /\ launched = <<>> /\ events = <<>>
  /\ \E s \in EngineSettings, n \in 0..MaxClips :
       StartWorker(s, [k \in 1..n |-> <<ClipData(k)[1], ClipData(k)[2]>>])
  /\ UNCHANGED <<window_vars, session_vars, frame_rate, manifest, stop_queued,
                 all_streams, mapping_args, is_cancelled,
                 clip_index, lines_read, crop_params, launched, events, result, checks,
                 files, calls>>

\* the flag flipped by each call
ExportWorker_stop_toggles(flag) == ~flag

\* ExportWorker.stop: _is_cancelled after the call, flag being its value
\* before
ExportWorker_stop(flag) == TRUE

\* ExportWorker.stop called on the worker, before run has begun, while it
\* runs or after it returned
stop ==
  /\ pc # "idle"
  /\ is_cancelled' = ExportWorker_stop(is_cancelled)
  /\ UNCHANGED <<window_vars, session_vars, frame_rate, manifest, stop_queued,
                 mapper_vars, settings, pc, clip_index,
                 lines_read, crop_params, launched, events, result, checks, files, calls>>

\* data['fps'] of get_video_metadata: 0 for a stream without a usable
\* r_frame_rate, else the rate of the stream
FrameRates == {0, 25}

\* a job in frames let through whatever the frame rate
NoFrameRate_never(mode, rate) == FALSE

\* mode == "frames" and frame_rate == 0
NoFrameRate(mode, rate) == mode = "frames" /\ rate = 0

\* run_powertrim_job up to segments_in_seconds: the empty check, the probe
\* and the frame rate check
run_validate ==
  /\ pc = "run"
  /\ UNCHANGED <<window_vars, session_vars, manifest, stop_queued, selected_track_ids,
                 lang_priority, mapping_args, settings, is_cancelled, clip_index,
                 lines_read, crop_params, checks, files, calls>>
  /\ IF NoSegments(segments_raw)
     THEN /\ Raise("No valid segments found to process.", <<>>, <<>>)
          /\ UNCHANGED <<all_streams, frame_rate>>
     ELSE \E probe_ok \in BOOLEAN, rate \in FrameRates :
            LET probe == <<Proc("ffprobe", 0, "worker")>>
            IN  IF ~probe_ok
                THEN /\ Raise("Error processing video metadata", probe, <<>>)
                     /\ UNCHANGED <<all_streams, frame_rate>>
                ELSE /\ frame_rate' = rate
                     /\ IF NoFrameRate(settings.mode, rate)
                        THEN /\ Raise("Frame mode selected, but could not determine frame rate.",
                                      probe, <<>>)
                             /\ UNCHANGED all_streams
                        ELSE /\ Step(IF settings.autocrop THEN "crop" ELSE "map", probe, <<>>)
                             /\ all_streams' = JobStreams
                             /\ UNCHANGED result

\* the outcomes of the cropdetect run: the tool is not installed, its
\* output holds no crop geometry, or the last geometry of its output
CropOutcomes == {"missing", "none", "crop=16:9:0:0"}

\* a geometry made up when the output holds none
DetectedCrop_made_up(outcome) == IF outcome = "none" THEN "crop=0:0:0:0" ELSE outcome

\* what detect_black_bars returns: "None" for None
DetectedCrop(outcome) == IF outcome = "none" THEN "None" ELSE outcome

\* detect_black_bars(input_video, duration, worker)
detect_black_bars ==
  /\ pc = "crop"
  /\ calls' = Append(calls, EngineCall("detect_black_bars", 0, <<>>, "", <<>>))
  /\ UNCHANGED <<window_vars, session_vars, frame_rate, manifest, stop_queued,
                 mapper_vars, settings, is_cancelled,
                 clip_index, lines_read, checks, files>>
  /\ LET analyzing == <<Emit("step_changed", <<"Analyzing for black bars...">>)>>
         ffmpeg == <<Proc("ffmpeg cropdetect", 0, "worker")>>
     IN  \E outcome \in CropOutcomes :
           IF outcome = "missing"
           THEN /\ Raise("ffmpeg command not found.", <<>>, analyzing)
                /\ UNCHANGED crop_params
           ELSE IF outcome = "none"
           THEN /\ Step("map", ffmpeg, analyzing)
                /\ crop_params' = DetectedCrop(outcome)
                /\ UNCHANGED result
           ELSE /\ Step("map", ffmpeg,
                        analyzing \o <<Emit("step_changed",
                                            <<"Detected crop: " \o outcome>>)>>)
                /\ crop_params' = DetectedCrop(outcome)
                /\ UNCHANGED result

\* total = len(segments_in_seconds)
total == Len(segments_raw)

\* mapping_args = generate_ffmpeg_mapping_args(...); a merging job then
\* enters the with statement of its temporary directory; the loop begins
run_mapping ==
  /\ pc = "map"
  /\ mapping_args' = generate_ffmpeg_mapping_args(all_streams, selected_track_ids,
                                                  lang_priority)
  /\ calls' = Append(calls, EngineCall("generate_ffmpeg_mapping_args", 0, <<>>, "", <<>>))
  /\ crop_params' = IF settings.autocrop THEN crop_params ELSE "None"
  /\ clip_index' = 0
  /\ IF total > 0
     THEN /\ pc' = "loop"
          /\ files' = IF settings.merge THEN files \cup {TempDirEntry} ELSE files
          /\ UNCHANGED result
     ELSE IF settings.merge
     THEN /\ pc' = "merge_check"
          /\ files' = files \cup {TempDirEntry}
          /\ UNCHANGED result
     ELSE /\ pc' = "return"
          /\ result' = OutputDir
          /\ UNCHANGED files
  /\ UNCHANGED <<window_vars, session_vars, frame_rate, manifest, stop_queued,
                 all_streams, selected_track_ids,
                 lang_priority, settings, is_cancelled, lines_read, launched, events,
                 checks>>

\* the flag read at the segment and merge checks, as the history keeps it
Check(at, clip) == [at |-> at, clip |-> clip, value |-> is_cancelled]

\* the flag not read at the check before the merge
is_cancelled_at_segments_only(at) == is_cancelled /\ at # "merge"

\* the flag read only at the check before the merge
is_cancelled_at_merge_only(at) == is_cancelled /\ at = "merge"

\* "worker and worker._is_cancelled" at one of its four places: the head
\* of the loop ("segment"), the stderr loop of a trim ("stderr"), the check
\* before the merge ("merge") and ExportWorker.run ("return")
is_cancelled_at(at) == is_cancelled

\* clip_started counted from zero
clip_started_from_zero(num) == Emit("clip_started", <<num - 1, total>>)

\* worker.clip_started.emit(i + 1, total)
clip_started(num) == Emit("clip_started", <<num, total>>)

\* the head of one loop iteration: the cancellation check, the output name
\* of a separate clip, clip_started and the step text
loop_head ==
  /\ pc = "loop"
  /\ checks' = Append(checks, Check("segment", clip_index + 1))
  /\ UNCHANGED <<window_vars, session_vars, frame_rate, manifest, stop_queued,
                 mapper_vars, settings, is_cancelled,
                 clip_index, lines_read, crop_params, calls>>
  /\ LET num == clip_index + 1
         started == clip_started(num)
         of_total == ToString(num) \o " of " \o ToString(total)
     IN  IF is_cancelled_at("segment")
         THEN /\ Step("return", <<>>, <<>>)
              /\ result' = "Cancelled"
              /\ files' = TemporaryDirectory_exit(files)
         ELSE IF settings.merge
         THEN /\ Step("trim", <<>>,
                      <<started, Emit("step_changed",
                                      <<"Processing clip " \o of_total \o "...">>)>>)
              /\ UNCHANGED <<result, files>>
         ELSE LET output_name == format_output_filename(settings.output_template, num)
              IN  IF output_name.raised
                  THEN /\ Raise("Invalid placeholder '{" \o output_name.key
                                  \o "}' in output template.", <<>>, <<>>)
                       /\ UNCHANGED files
                  ELSE /\ Step("trim", <<>>,
                               <<started,
                                 Emit("step_changed",
                                      <<"Exporting clip " \o of_total \o ": "
                                          \o output_name.text
                                          \o video_extension(settings.video_mode)>>)>>)
                       /\ UNCHANGED <<result, files>>

\* clip_path of a merging job, output_path of a job of separate clips
ClipFile(num) ==
  IF settings.merge
  THEN File(TempDir, "temp_" \o Pad3(num) \o video_extension(settings.video_mode))
  ELSE File(OutputDir, format_output_filename(settings.output_template, num).text
                         \o video_extension(settings.video_mode))

\* the frames of segment num of the job
SegmentRange(num) ==
  IF num \in DOMAIN segments_raw THEN segments_raw[num] ELSE <<0, 0>>

\* filter_cmd of trim_video_segment: the filter arguments of the ffmpeg
\* command, none for the crop filter None
filter_cmd(crop_filter) ==
  IF crop_filter \notin {"", "None"} THEN <<"-vf", crop_filter>> ELSE <<>>

\* the crop filter handed to the trim of the first clip only
TrimCall_crop_for_first(num) ==
  EngineCall("trim_video_segment", num, SegmentRange(num),
             IF num = 1 THEN crop_params ELSE "None", mapping_args)

\* trim_video_segment(input_video, clip_path, start, end, video_mode,
\* crop_params, mapping_args, worker), start and end in frames of the input
TrimCall(num) ==
  EngineCall("trim_video_segment", num, SegmentRange(num), crop_params, mapping_args)

\* trim_video_segment starts its process: smartcut under subprocess.run,
\* ffmpeg under Popen; a tool that is not installed raises
trim_start ==
  /\ pc = "trim"
  /\ lines_read' = 0
  /\ calls' = Append(calls, TrimCall(clip_index + 1))
  /\ UNCHANGED <<window_vars, session_vars, frame_rate, manifest, stop_queued,
                 mapper_vars, settings, is_cancelled,
                 clip_index, crop_params, checks>>
  /\ \E found \in BOOLEAN :
       IF found
       THEN /\ Step("trimming",
                    <<Proc(IF settings.video_mode = "smart-cut" THEN "smartcut"
                           ELSE "ffmpeg trim", clip_index + 1, "worker")>>, <<>>)
            /\ files' = files \cup {ClipFile(clip_index + 1)}
            /\ UNCHANGED result
       ELSE /\ Raise(IF settings.video_mode = "smart-cut"
                     THEN "smartcut command not found."
                     ELSE "[Errno 2] No such file or directory: 'ffmpeg'", <<>>, <<>>)
            /\ files' = TemporaryDirectory_exit(files)

\* the end of the loop taken for that of a job of separate clips, merge or
\* not
AfterTrim_never_merges(sigs) ==
  /\ clip_index' = clip_index + 1
  /\ IF clip_index + 1 < total
     THEN Step("loop", <<>>, sigs) /\ UNCHANGED result
     ELSE Step("return", <<>>, sigs) /\ result' = OutputDir

\* trim_video_segment has returned: the loop goes on to the next segment or
\* ends, and a job of separate clips returns the output directory
AfterTrim(sigs) ==
  /\ clip_index' = clip_index + 1
  /\ IF clip_index + 1 < total
     THEN Step("loop", <<>>, sigs) /\ UNCHANGED result
     ELSE IF settings.merge
     THEN Step("merge_check", <<>>, sigs) /\ UNCHANGED result
     ELSE Step("return", <<>>, sigs) /\ result' = OutputDir

\* the frames of the segment being trimmed
duration == LET seg == SegmentRange(clip_index + 1) IN seg[2] - seg[1]

\* the percentage of a stderr line that reports elapsed frames:
\* min(100, int((elapsed_time / duration) * 100))
percentage(elapsed_time) == Min(100, (elapsed_time * 100) \div duration)

\* progress reported in every video mode
ReportsProgress_in_copy_mode(video_mode) == TRUE

\* worker and video_mode != 'copy', of the progress branch of the loop
ReportsProgress(video_mode) == video_mode # "copy"

\* process.terminate() of the trim of clip num
Terminate(num) == EngineCall("process.terminate", num, <<>>, "", <<>>)

\* one turn of "for line in process.stderr": the cancellation check with
\* terminate and return, then the progress of a line that carries time=
trim_stderr_line ==
  /\ pc = "trimming"
  /\ settings.video_mode # "smart-cut"
  /\ lines_read < MaxLines
  /\ UNCHANGED <<window_vars, session_vars, frame_rate, manifest, stop_queued,
                 mapper_vars, settings, is_cancelled, crop_params, checks, files>>
  /\ \E line \in StderrLines :
       IF is_cancelled_at("stderr")
       THEN /\ calls' = Append(calls, Terminate(clip_index + 1))
            /\ AfterTrim(<<>>)
            /\ UNCHANGED lines_read
       ELSE /\ lines_read' = lines_read + 1
            /\ Step("trimming", <<>>,
                    IF line # NoTime /\ ReportsProgress(settings.video_mode)
                    THEN <<Emit("progress_updated", <<percentage(line)>>)>>
                    ELSE <<>>)
            /\ UNCHANGED <<clip_index, result, calls>>

\* the error of a failed trim reported and the loop going on
TrimFailed_goes_on(message) ==
  /\ AfterTrim(<<Emit("error", <<message>>)>>)
  /\ UNCHANGED files

\* trim_video_segment raises for a process that exited non-zero
TrimFailed(message) ==
  /\ Raise(message, <<>>, <<>>)
  /\ files' = TemporaryDirectory_exit(files)
  /\ UNCHANGED clip_index

\* the process of the trim ends with a return code
trim_exit ==
  /\ pc = "trimming"
  /\ UNCHANGED <<window_vars, session_vars, frame_rate, manifest, stop_queued,
                 mapper_vars, settings, is_cancelled,
                 lines_read, crop_params, checks, calls>>
  /\ \E returncode \in {0, 1} :
       IF settings.video_mode = "smart-cut"
       THEN IF returncode = 0
            THEN /\ AfterTrim(<<Emit("progress_updated", <<100>>)>>)
                 /\ UNCHANGED files
            ELSE TrimFailed("Error during smartcut for clip " \o ToString(clip_index + 1))
       ELSE IF returncode = 0
            THEN /\ AfterTrim(<<>>)
                 /\ UNCHANGED files
            ELSE TrimFailed("FFmpeg failed for segment " \o ToString(clip_index + 1))

\* the check after the loop of a merging job, and the step text
merge_head ==
  /\ pc = "merge_check"
  /\ checks' = Append(checks, Check("merge", 0))
  /\ UNCHANGED <<window_vars, session_vars, frame_rate, manifest, stop_queued,
                 mapper_vars, settings, is_cancelled,
                 clip_index, lines_read, crop_params, calls>>
  /\ IF is_cancelled_at("merge")
     THEN /\ Step("return", <<>>, <<>>)
          /\ result' = "Cancelled"
          /\ files' = TemporaryDirectory_exit(files)
     ELSE /\ Step("merge", <<>>, <<Emit("step_changed", <<"Merging all clips...">>)>>)
          /\ UNCHANGED <<result, files>>

\* temp_clip_paths of a merging job: clip_path appended after each
\* trim_video_segment that returned
temp_clip_paths == [num \in 1..clip_index |-> ClipFile(num)]

\* a manifest that lists the clips last first
ManifestLines_reversed(clip_paths) ==
  [k \in 1..Len(clip_paths) |-> clip_paths[Len(clip_paths) + 1 - k]]

\* for clip_path in clip_paths: manifest.write(...), one line per clip
ManifestLines(clip_paths) == clip_paths

\* merge_videos writes the manifest and starts the concatenation; when the
\* tool is not installed the finally clause and the with statement are left
merge_start ==
  /\ pc = "merge"
  /\ calls' = Append(calls, EngineCall("merge_videos", 0, <<>>, "", <<>>))
  /\ manifest' = ManifestLines(temp_clip_paths)
  /\ UNCHANGED <<window_vars, session_vars, frame_rate, stop_queued, mapper_vars,
                 settings, is_cancelled, clip_index, lines_read, crop_params, checks>>
  /\ \E found \in BOOLEAN :
       LET written == files \cup {ManifestFile}
       IN  IF found
           THEN /\ Step("merging", <<Proc("ffmpeg concat", 0, "worker")>>, <<>>)
                /\ files' = written
                /\ UNCHANGED result
           ELSE /\ Raise("[Errno 2] No such file or directory: 'ffmpeg'", <<>>, <<>>)
                /\ files' = TemporaryDirectory_exit(unlink(written, ManifestFile))

\* the output directory returned by a merging job
final_path_is_directory == OutputDir

\* str(final_path.resolve())
final_path == OutputFile

\* the concatenation ends with a return code: the finally clause of
\* merge_videos, then the with statement is left
merge_exit ==
  /\ pc = "merging"
  /\ files' = TemporaryDirectory_exit(unlink(files, ManifestFile))
  /\ UNCHANGED <<window_vars, session_vars, frame_rate, manifest, stop_queued,
                 mapper_vars, settings, is_cancelled,
                 clip_index, lines_read, crop_params, checks, calls>>
  /\ \E returncode \in {0, 1} :
       IF returncode = 0
       THEN /\ Step("return", <<>>, <<>>)
            /\ result' = final_path
       ELSE Raise("Error during final merge", <<>>, <<>>)

\* ExportWorker.run after run_powertrim_job returned
worker_return ==
  /\ pc = "return"
  /\ Step("done", <<>>, IF ~is_cancelled_at("return")
                        THEN <<Emit("finished", <<result>>)>>
                        ELSE <<>>)
  /\ UNCHANGED <<window_vars, session_vars, frame_rate, manifest, stop_queued,
                 mapper_vars, settings, is_cancelled,
                 clip_index, lines_read, crop_params, result, checks, files, calls>>

\* the Cancel button of the status dialog while the job runs:
\* cancel_button.clicked emits cancelled, which is connected to the stop of
\* a worker that lives in export_thread, so the call is queued to that
\* thread
cancel_clicked ==
  /\ pc \notin {"idle", "done"}
  /\ ~stop_queued
  /\ stop_queued' = TRUE
  /\ UNCHANGED <<window_vars, session_vars, frame_rate, manifest, mapper_vars,
                 settings, pc, is_cancelled, clip_index, lines_read, crop_params,
                 launched, events, result, checks, files, calls>>

\* the queued call of stop taken by the event loop of export_thread, which
\* the thread enters when the slot run has returned
stop_delivered ==
  /\ pc = "done"
  /\ stop_queued
  /\ stop_queued' = FALSE
  /\ is_cancelled' = ExportWorker_stop(is_cancelled)
  /\ UNCHANGED <<window_vars, session_vars, frame_rate, manifest, mapper_vars,
                 settings, pc, clip_index, lines_read, crop_params, launched,
                 events, result, checks, files, calls>>

NextJob ==
  \/ handle_export_video
  \/ run_from_caller
  \/ stop
  \/ cancel_clicked
  \/ stop_delivered
  \/ run_validate
  \/ detect_black_bars
  \/ run_mapping
  \/ loop_head
  \/ trim_start
  \/ trim_stderr_line
  \/ trim_exit
  \/ merge_head
  \/ merge_start
  \/ merge_exit
  \/ worker_return

SpecJob == InitJob /\ [][NextJob]_vars

(* ----------------------- the store during an export -------------------- *)
\* The window handlers go on working while the worker thread runs a job:
\* the status dialog is not modal. The jobs are those of the copy mode.
CopySettings ==
  {s \in DialogSettings : s.video_mode = "copy" /\ s.output_template # BogusTemplate}

\* handle_export_video, the dialog set to copy
handle_export_video_copy == ExportRequest(CopySettings)

\* the worker thread is in ExportWorker.run
Exporting == pc \notin {"idle", "done"}

\* a handler that executes a command is offered
EditOffered == Exporting /\ Len(undo_stack) + Len(redo_stack) < MaxEdits

add_during_export == EditOffered /\ add_segment_from_in_out
delete_during_export == EditOffered /\ delete_selected_segment
update_during_export == EditOffered /\ apply_properties_changes
merge_during_export == EditOffered /\ merge_selected_segments
import_during_export == EditOffered /\ handle_import_csv
undo_during_export == Exporting /\ undo
redo_during_export == Exporting /\ redo

NextSnapshot ==
  \/ handle_export_video_copy
  \/ add_during_export
  \/ delete_during_export
  \/ update_during_export
  \/ merge_during_export
  \/ import_during_export
  \/ undo_during_export
  \/ redo_during_export
  \/ stop
  \/ run_validate
  \/ run_mapping
  \/ loop_head
  \/ trim_start
  \/ trim_stderr_line
  \/ trim_exit
  \/ merge_head
  \/ merge_start
  \/ merge_exit
  \/ worker_return

SpecSnapshot == InitJob /\ [][NextSnapshot]_vars

(* --------------------------- export requests --------------------------- *)
\* The QThreads of a session. A thread is "running" while ExportWorker.run
\* executes in it, "signalled" when run has returned and its finished or
\* error signal waits for the window, "delivering" while the slot of that
\* signal waits in export_thread.wait(), "idle" when its event loop runs with
\* nothing to do, and "finished" once it was quit and waited for.
Thread(state, signal) == [state |-> state, signal |-> signal]

\* thread i, in another state
SetThread(ts, i, state) == [ts EXCEPT ![i] = Thread(state, ts[i].signal)]

\* the numbers of the threads in which ExportWorker.run executes
Running == {i \in DOMAIN threads : threads[i].state = "running"}

\* the window thread is not held in a slot
GuiFree == \A i \in DOMAIN threads : threads[i].state # "delivering"

\* QThread.isRunning() of the thread the window refers to
IsRunning(ts, i) == i # 0 /\ ts[i].state # "finished"

InitRequests ==
  /\ \E segs \in ExportStores : WindowLoaded(segs)
  /\ EngineIdle

\* what becomes of a QThread that is still running when the window drops its
\* last reference to it: Qt aborts the application when the object is
\* destroyed, or the object outlives the reference and the thread goes on
DroppedThreadOutcomes == {"abort", "goes on"}

\* handle_export_video with a store that holds segments, a probe that
\* succeeds and both dialogs accepted: a thread and a worker are made and
\* the thread is started, whatever export_thread refers to
export_requested ==
  /\ ~aborted /\ GuiFree
  /\ Len(threads) < MaxJobs
  /\ ~NoSegments(segments) /\ video_path
  /\ \E outcome \in DroppedThreadOutcomes :
       IF IsRunning(threads, export_thread) /\ outcome = "abort"
       THEN /\ aborted' = TRUE
            /\ threads' = [i \in DOMAIN threads |-> Thread("finished", "")]
            /\ export_thread' = 0
       ELSE /\ threads' = Append(threads, Thread("running", ""))
            /\ export_thread' = Len(threads) + 1
            /\ UNCHANGED aborted
  /\ UNCHANGED <<window_vars, mapper_vars, job_vars>>

\* ExportWorker.run returns in thread i, having emitted finished or error
run_returns ==
  /\ ~aborted
  /\ \E i \in Running, signal \in {"finished", "error"} :
       threads' = [threads EXCEPT ![i] = Thread("signalled", signal)]
  /\ UNCHANGED <<window_vars, mapper_vars, job_vars, export_thread, aborted>>

\* export_thread.quit() and export_thread.wait() have returned in the slot
\* that thread i called: the thread the window refers to is finished, and
\* the reference is set to None
ThreadQuit(i) ==
  /\ threads' = IF export_thread = 0 THEN SetThread(threads, i, "idle")
                ELSE SetThread(SetThread(threads, i, "idle"), export_thread, "finished")
  /\ export_thread' = 0

\* the slot of a signal of thread i: it waits while run executes in the
\* thread the window refers to
ExportEnded(i) ==
  /\ ~aborted /\ GuiFree
  /\ threads[i].state = "signalled"
  /\ IF export_thread # 0 /\ export_thread \in Running
     THEN /\ threads' = SetThread(threads, i, "delivering")
          /\ UNCHANGED export_thread
     ELSE ThreadQuit(i)
  /\ UNCHANGED <<window_vars, mapper_vars, job_vars, aborted>>

\* on_export_finished
on_export_finished ==
  \E i \in DOMAIN threads : threads[i].signal = "finished" /\ ExportEnded(i)

\* on_export_error
on_export_error ==
  \E i \in DOMAIN threads : threads[i].signal = "error" /\ ExportEnded(i)

\* export_thread.wait() returns in a slot that was waiting
wait_returns ==
  /\ ~aborted
  /\ \E i \in DOMAIN threads :
       /\ threads[i].state = "delivering"
       /\ export_thread \notin Running
       /\ ThreadQuit(i)
  /\ UNCHANGED <<window_vars, mapper_vars, job_vars, aborted>>

NextRequests ==
  \/ export_requested
  \/ run_returns
  \/ on_export_finished
  \/ on_export_error
  \/ wait_returns

SpecRequests == InitRequests /\ [][NextRequests]_vars

(* ------------------------------ properties ----------------------------- *)
ExecOps == {"add_segment_from_in_out", "delete_selected_segment",
            "apply_properties_changes", "change_selected_segment_color",
            "merge_selected_segments", "handle_import_csv"}

\* the last step ran UndoManager.execute
Executed == last.op \in ExecOps /\ last.cmd # NoCommand

SetMin(S) == CHOOSE x \in S : \A y \in S : x <= y
SetMax(S) == CHOOSE x \in S : \A y \in S : x >= y

\* the segments of lst whose 0-based index is not in idx, in order
Unselected(lst, idx) ==
  LET F[i \in 0..Len(lst)] ==
        IF i = 0 THEN <<>>
        ELSE IF (i - 1) \in idx THEN F[i - 1] ELSE Append(F[i - 1], lst[i])
  IN  F[Len(lst)]

\* C1: N commands run through execute, then N undo() calls, leave the
\* segment list as it was before the sequence, and N redo() calls then
\* bring back the list that held after the N executes.  done_marks and
\* undone_marks hold, per command on the stacks, the list before and after
\* its first execute: the list is always the one after the newest done
\* command and before the most recently undone one, and the recorded lists
\* of neighbouring commands agree, so k undos from any point reach the list
\* before the k-th newest command and k redos reach the list after it.
C1_UndoRedoRoundTrip ==
  /\ Len(done_marks) = Len(undo_stack)
  /\ Len(undone_marks) = Len(redo_stack)
  /\ undo_stack # <<>> => segments = Last(done_marks).post
  /\ redo_stack # <<>> => segments = Last(undone_marks).pre
  /\ \A i \in 1..(Len(done_marks) - 1) : done_marks[i].post = done_marks[i + 1].pre
  /\ \A i \in 1..(Len(undone_marks) - 1) :
       undone_marks[i].pre = undone_marks[i + 1].post

\* two commands executed and both undone, the list changed by each
C1_Witness ==
  /\ last.op = "undo"
  /\ undo_stack = <<>>
  /\ Len(redo_stack) = 2
  /\ undone_marks[1].pre # undone_marks[1].post
  /\ undone_marks[2].pre # undone_marks[2].post
  /\ segments = undone_marks[2].pre

\* C2: for every selection of at least two rows that the merge handler
\* accepts (sorted by start frame, each neighbour adjacent or overlapping),
\* the merge command's execute followed by its undo gives back exactly the
\* segment list it started from.
C2_MergeUndoRestores ==
  \A sel \in Selections(Len(segments)) :
    LET m == MergeRequest(sel, segments)
    IN  m.accepted =>
          LET e == MergeSegmentsCommand_execute(m.cmd, segments)
          IN  /\ e.segs # segments
              /\ MergeSegmentsCommand_undo(e.cmd, e.segs).segs = segments

\* a merge of two rows out of three was executed and undone
C2_Witness ==
  /\ last.op = "undo"
  /\ last.cmd.type = "Merge"
  /\ Len(last.cmd.indices) = 2
  /\ Len(segments) = 3
  /\ segments = Last(undone_marks).pre

\* C3: after every UndoManager.execute(cmd) the redo stack is empty and cmd
\* is the top of the undo stack, above what the undo stack held before.
C3_ExecuteClearsUndone ==
  [][ (last'.op \in ExecOps /\ last'.cmd # NoCommand) =>
        /\ redo_stack' = <<>>
        /\ undo_stack' = Append(undo_stack, Command_execute(last'.cmd, segments).cmd)
    ]_vars

\* a command was executed while the redo stack held a command
C3_Witness ==
  /\ Executed
  /\ last.undone_before > 0
  /\ redo_stack = <<>>

\* C4: a call of execute, undo or redo that changes the store emits
\* command_executed exactly once, and undo() on an empty undo stack or
\* redo() on an empty redo stack emits none.
C4_DirtyOnlyOnMutation ==
  [][ /\ (last'.op \in ExecOps \cup {"undo", "redo"} /\ segments' # segments)
           => last'.executed = 1
      /\ (last'.op = "undo" /\ undo_stack = <<>>) => last'.executed = 0
      /\ (last'.op = "redo" /\ redo_stack = <<>>) => last'.executed = 0
    ]_vars

\* C5: a merge request that selects fewer than two rows, or whose rows
\* sorted by start frame hold a neighbouring pair with
\* end_frame < next start_frame - 1, is not accepted, and a merge request
\* that is not accepted leaves the store and both stacks as they were.
C5_MergeRejectedUnchanged ==
  /\ [](\A sel \in Selections(Len(segments)) :
          LET sorted == SortByStart(sel, segments)
          IN  (\/ Len(sel) < 2
               \/ \E i \in 1..(Len(sorted) - 1) :
                    segments[sorted[i] + 1].end_frame
                      < segments[sorted[i + 1] + 1].start_frame - 1)
                => ~MergeRequest(sel, segments).accepted)
  /\ [][ (last'.op = "merge_selected_segments" /\ last'.cmd = NoCommand) =>
           UNCHANGED <<segments, undo_stack, redo_stack>> ]_vars

\* a merge request was turned down in a store that holds two rows with a gap
C5_Witness ==
  /\ last.op = "merge_selected_segments"
  /\ last.cmd = NoCommand
  /\ \E a, b \in 1..Len(segments) :
       segments[a].end_frame < segments[b].start_frame - 1

\* The list after a merge of k selected rows, the merged segment at pos.
MergeDone == last.op = "merge_selected_segments" /\ last.cmd # NoCommand

MergedAt(pos) ==
  LET before == Last(done_marks).pre
      idx == Range(last.cmd.indices)
      k == Cardinality(idx)
      first == SetMin({before[i + 1].start_frame : i \in idx})
  IN  /\ k >= 2
      /\ Len(segments) = Len(before) - (k - 1)
      /\ 0 <= pos /\ pos < Len(segments)
      /\ segments[pos + 1].start_frame = first
      /\ segments[pos + 1].end_frame = SetMax({before[i + 1].end_frame : i \in idx})
      /\ segments[pos + 1].color
           \in {before[i + 1].color : i \in {j \in idx : before[j + 1].start_frame = first}}
      /\ PyDel(segments, pos) = Unselected(before, idx)

\* C6 as stated: after a successful merge the merged segment (min start,
\* max end, color of the earliest) stands where the last selected row
\* stood among the rows that stay, which keep their data and order.
C6_MergedAtLastSelected ==
  MergeDone =>
    MergedAt(SetMax(Range(last.cmd.indices)) - (Len(last.cmd.indices) - 1))

\* C6 amended: the merged segment stands at the smallest selected index.
C6_MergedAtFirstSelected ==
  MergeDone => MergedAt(SetMin(Range(last.cmd.indices)))

\* rows 0 and 2 of three were merged
C6_Witness ==
  /\ MergeDone
  /\ Range(last.cmd.indices) = {0, 2}
  /\ Len(segments) = 2

\* C7: an import is one command: it pushes one Import entry, the store then
\* holds the imported rows and nothing else, and the undo of that entry
\* brings back the list the store held before the import.
C7_ImportIsOneCommand ==
  [][ /\ (last'.op = "handle_import_csv" /\ last'.cmd # NoCommand) =>
           /\ Len(undo_stack') = Len(undo_stack) + 1
           /\ Last(undo_stack').type = "Import"
           /\ Len(segments') = Len(last'.cmd.new)
           /\ \A i \in 1..Len(segments') :
                /\ segments'[i].start_frame = last'.cmd.new[i][1]
                /\ segments'[i].end_frame = last'.cmd.new[i][2]
                /\ segments'[i].color = last'.cmd.new[i][3]
      /\ (last'.op = "undo" /\ last'.cmd.type = "Import") =>
           /\ segments' = Last(done_marks).pre
           /\ Len(undo_stack') = Len(undo_stack) - 1
    ]_vars

\* an import over a store of three segments was undone
C7_Witness ==
  /\ last.op = "undo"
  /\ last.cmd.type = "Import"
  /\ Len(last.cmd.new) = 2
  /\ Len(segments) = 3

\* C8: after _load_video, and after a project's segments are applied, both
\* stacks are empty, and with both stacks empty undo() and redo() leave the
\* store as it is.
C8_LoadClearsStacks ==
  [][ /\ last'.op \in {"_load_video", "apply_project"} =>
           (undo_stack' = <<>> /\ redo_stack' = <<>>)
      /\ (last'.op \in {"undo", "redo"} /\ undo_stack = <<>> /\ redo_stack = <<>>)
           => segments' = segments
    ]_vars

\* a video was loaded while the redo stack held a command
C8_Witness ==
  /\ last.op = "_load_video"
  /\ last.undone_before > 0
  /\ undo_stack = <<>>
  /\ redo_stack = <<>>

\* C9: every stored segment has end_frame > start_frame.
C9_EndAfterStart ==
  \A i \in 1..Len(segments) : segments[i].end_frame > segments[i].start_frame

\* C10: remove(index) and update(index, data) with an index outside
\* 0..len-1 leave the list unchanged and emit no model_changed; with an
\* index in range they change the segment at that index only (remove takes
\* it out, update replaces it by data) and emit model_changed once.
C10_OutOfRangeIsNoOp ==
  [][ /\ last'.op = "remove_segment" =>
           IF 0 <= last'.index /\ last'.index < Len(segments)
           THEN /\ Len(segments') = Len(segments) - 1
                /\ \A j \in 1..Len(segments') :
                     segments'[j] = IF j <= last'.index THEN segments[j]
                                    ELSE segments[j + 1]
                /\ last'.changed = 1
           ELSE segments' = segments /\ last'.changed = 0
      /\ last'.op = "update_segment" =>
           IF 0 <= last'.index /\ last'.index < Len(segments)
           THEN /\ Len(segments') = Len(segments)
                /\ \A j \in 1..Len(segments) :
                     j # last'.index + 1 => segments'[j] = segments[j]
                /\ segments'[last'.index + 1].start_frame = last'.data[1]
                /\ segments'[last'.index + 1].end_frame = last'.data[2]
                /\ segments'[last'.index + 1].color = last'.data[3]
                /\ last'.changed = 1
           ELSE segments' = segments /\ last'.changed = 0
    ]_vars

\* remove_segment(-1) was called on a store of two segments
C10_Witness ==
  /\ last.op = "remove_segment"
  /\ last.index = -1
  /\ last.changed = 0
  /\ Len(segments) = 2

(* ------------------------ track mapper properties ---------------------- *)
\* the mapper has returned
Mapped == mapping_args # <<>>

\* the positions of a token in an argument list, ascending
Positions(args, tok) ==
  SelectSeq([p \in 1..Len(args) |-> p], LAMBDA p : args[p] = tok)

\* the targets of the -map directives of an argument list, in order
MapTargets(args) ==
  LET ps == Positions(args, "-map")
  IN  [k \in 1..Len(ps) |-> args[ps[k] + 1]]

\* the streams of one type
StreamsOf(codec_type) ==
  SelectSeq(all_streams, LAMBDA t : t.codec_type = codec_type)

\* the map targets that name a stream of one type, in output order
MappedOf(codec_type) ==
  SelectSeq(MapTargets(mapping_args),
            LAMBDA t : \E i \in 1..Len(all_streams) :
                         /\ MapArg(all_streams[i]) = t
                         /\ all_streams[i].codec_type = codec_type)

\* the stream a map target names
StreamOf(streams, target) ==
  CHOOSE t \in Range(streams) : MapArg(t) = target

\* C11: the mapping holds one map directive for every video stream, in the
\* streams' original order, whatever the selection.
C11_AllVideoMapped ==
  Mapped =>
    LET video == StreamsOf("video")
    IN  MappedOf("video") = [k \in 1..Len(video) |-> MapArg(video[k])]

\* a video stream outside the selection was mapped, after another one
C11_Witness ==
  /\ Mapped
  /\ Len(StreamsOf("video")) >= 2
  /\ \E i \in 1..Len(all_streams) :
       /\ all_streams[i].codec_type = "video"
       /\ all_streams[i].id \notin selected_track_ids
  /\ Len(MappedOf("video")) >= 2

\* the position of a language in the priority list, len(list) when it is
\* not listed
Rank(lang, prio) ==
  IF \E i \in 1..Len(prio) : prio[i] = lang
  THEN (CHOOSE i \in 1..Len(prio) :
          prio[i] = lang /\ \A j \in 1..(i - 1) : prio[j] # lang) - 1
  ELSE Len(prio)

\* the key as stated: a stream without a language tag after all listed ones
StatedKey(t, prio) ==
  <<IF t.language = NoTag THEN Len(prio) ELSE Rank(Lower(t.language), prio), t.id>>

\* the key with a stream without a language tag counted as 'und'
UndKey(t, prio) ==
  <<Rank(IF t.language = NoTag THEN "und" ELSE Lower(t.language), prio), t.id>>

\* targets names exactly the selected streams of one type, each once,
\* ascending in keys (UndKey when und_for_absent, else StatedKey)
OrderedSelection(targets, streams, codec_type, selected, prio, und_for_absent) ==
  LET key(t) == IF und_for_absent THEN UndKey(t, prio) ELSE StatedKey(t, prio)
  IN  /\ {targets[k] : k \in 1..Len(targets)}
           = {MapArg(t) : t \in {u \in Range(streams) :
                                   u.codec_type = codec_type /\ u.id \in selected}}
      /\ \A i, j \in 1..Len(targets) : i # j => targets[i] # targets[j]
      /\ \A i, j \in 1..Len(targets) :
           i < j => KeyLess(key(StreamOf(streams, targets[i])),
                            key(StreamOf(streams, targets[j])))

\* the streams of the spec's example: id 1 eng, id 2 jpn, id 3 und
ExampleStreams ==
  <<Stream(1, 1, "audio", "eng"), Stream(2, 2, "audio", "jpn"),
    Stream(3, 3, "audio", "und")>>

ExampleOrder ==
  LET args == generate_ffmpeg_mapping_args(ExampleStreams, {1, 2, 3},
                                           <<"jpn", "eng">>)
      targets == MapTargets(args)
  IN  [k \in 1..Len(targets) |-> StreamOf(ExampleStreams, targets[k]).id]

\* C12 as stated: the mapped audio (subtitle) streams are the selected ones,
\* ordered by position of the language in the priority list, an unlisted or
\* absent language after all listed ones, then by id; the example gives
\* [2, 1, 3].
C12_AbsentLanguageLast ==
  /\ ExampleOrder = <<2, 1, 3>>
  /\ Mapped =>
       \A codec_type \in {"audio", "subtitle"} :
         OrderedSelection(MappedOf(codec_type), all_streams, codec_type,
                          selected_track_ids, lang_priority, FALSE)

\* C12 amended: the same order, with a stream that carries no language tag
\* ranked as language 'und' (at the position of 'und' when the list names it).
C12_AbsentLanguageIsUnd ==
  /\ ExampleOrder = <<2, 1, 3>>
  /\ Mapped =>
       \A codec_type \in {"audio", "subtitle"} :
         OrderedSelection(MappedOf(codec_type), all_streams, codec_type,
                          selected_track_ids, lang_priority, TRUE)

\* three selected audio streams came out in neither list order nor id
\* order, two of one language rank by id against their list order
C12_Witness ==
  LET out == MappedOf("audio")
      st(k) == StreamOf(all_streams, out[k])
  IN  /\ Mapped
      /\ Len(out) = 3
      /\ \E i, j \in 1..3 : i < j /\ st(i).index > st(j).index
      /\ \E i, j \in 1..3 : i < j /\ st(i).id > st(j).id
      /\ \E i, j \in 1..3 :
           /\ i < j
           /\ UndKey(st(i), lang_priority)[1] = UndKey(st(j), lang_priority)[1]
           /\ st(i).index > st(j).index

\* the disposition key of output stream i of a type
DispositionKey(letter, i) == "-disposition:" \o letter \o ":" \o ToString(i)

\* The tracks of one type are laid out as map, target, disposition key,
\* value: output stream 0 is default and every later one is cleared.
FirstIsDefault(codec_type, letter) ==
  LET targets == MappedOf(codec_type)
      args == mapping_args
  IN  \A k \in 1..Len(targets) :
        /\ Len(Positions(args, DispositionKey(letter, k - 1))) = 1
        /\ LET p == Positions(args, DispositionKey(letter, k - 1))[1]
           IN  /\ p >= 3 /\ p < Len(args)
               /\ args[p - 2] = "-map"
               /\ args[p - 1] = targets[k]
               /\ args[p + 1] = (IF k = 1 THEN "default" ELSE "0")

\* the number of tracks of one type marked default
Defaults(letter) ==
  Cardinality({p \in 1..(Len(mapping_args) - 1) :
                 /\ \E i \in 0..MaxStreams : mapping_args[p] = DispositionKey(letter, i)
                 /\ mapping_args[p + 1] = "default"})

\* C13: when an audio stream is mapped, exactly one mapped audio stream is
\* default, the first of the sorted order, and the later ones are cleared;
\* the same for subtitle streams.
C13_FirstTrackIsDefault ==
  Mapped =>
    /\ FirstIsDefault("audio", "a")
    /\ FirstIsDefault("subtitle", "s")
    /\ MappedOf("audio") # <<>> => Defaults("a") = 1
    /\ MappedOf("subtitle") # <<>> => Defaults("s") = 1

\* two audio streams are mapped, the first of them not the first of the list
C13_Witness ==
  /\ Mapped
  /\ Len(MappedOf("audio")) >= 2
  /\ MappedOf("audio")[1] # MapArg(StreamsOf("audio")[1])
  /\ Defaults("a") = 1

\* the selection holds a stream of the type
SelectedOf(codec_type) ==
  \E i \in 1..Len(all_streams) :
    /\ all_streams[i].codec_type = codec_type
    /\ all_streams[i].id \in selected_track_ids

\* C14: with no audio stream selected the mapping holds -an and no audio
\* map, with no subtitle stream selected it holds -sn; with a stream of the
\* type selected the directive is absent.
C14_NoTrackDirective ==
  Mapped =>
    /\ ~SelectedOf("audio") =>
         "-an" \in Range(mapping_args) /\ MappedOf("audio") = <<>>
    /\ ~SelectedOf("subtitle") =>
         "-sn" \in Range(mapping_args) /\ MappedOf("subtitle") = <<>>
    /\ SelectedOf("audio") => "-an" \notin Range(mapping_args)
    /\ SelectedOf("subtitle") => "-sn" \notin Range(mapping_args)

\* the file has audio streams, none selected, and a selected subtitle
C14_Witness ==
  /\ Mapped
  /\ StreamsOf("audio") # <<>>
  /\ ~SelectedOf("audio")
  /\ SelectedOf("subtitle")
  /\ "-an" \in Range(mapping_args)

(* ------------------------- export job properties ----------------------- *)
\* a worker was created
JobExists == pc # "idle"

\* the processes of the log that are trims, and those that are trims or
\* concatenations
IsTrim(p) == p.tool \in {"ffmpeg trim", "smartcut"}
IsTrimOrMerge(p) == IsTrim(p) \/ p.tool = "ffmpeg concat"
Trims(log) == SelectSeq(log, IsTrim)
TrimsAndMerges(log) == SelectSeq(log, IsTrimOrMerge)

\* the processes the worker thread started
ByWorker(log) == SelectSeq(log, LAMBDA p : p.ctx = "worker")

\* the emissions of one signal
Emitted(signal) == SelectSeq(events, LAMBDA e : e.signal = signal)

\* the job ended through the except branch of ExportWorker.run
Failed == Emitted("error") # <<>>

\* C15: an export job given an empty segment list fails with a validation
\* error before any external process is launched; the window refuses an
\* export of an empty store before it probes the file.
C15_EmptyListFailsFirst ==
  /\ JobExists /\ settings.segments_raw = <<>> =>
       /\ launched = <<>>
       /\ pc \in {"run", "done"}
       /\ pc = "done" =>
            /\ events = <<Emit("error", <<"No valid segments found to process.">>)>>
            /\ result = ""
  /\ ~JobExists /\ segments = <<>> =>
       /\ launched = <<>>
       /\ events \in {<<>>, <<Box("warning", "There are no segments to export.")>>}

\* a job on an empty list has ended
C15_Witness ==
  /\ pc = "done"
  /\ settings.segments_raw = <<>>
  /\ Failed
  /\ launched = <<>>

\* the template of the job names a field the segment data does not hold
UnknownPlaceholder ==
  \E k \in 1..Len(Placeholders(settings.output_template)) :
    Placeholders(settings.output_template)[k] \notin SegDataKeys

\* C16: a job whose output template holds an unknown placeholder fails with
\* a validation error before any external process is invoked, merging or not.
C16_UnknownPlaceholderFailsFirst ==
  JobExists /\ settings.segments_raw # <<>> /\ UnknownPlaceholder =>
    /\ ByWorker(launched) = <<>>
    /\ pc = "done" => Failed

\* the trims of segments 1..n in order, by the tool of the mode
ExpectedTrims(n, video_mode) ==
  [k \in 1..n |-> Proc(IF video_mode = "smart-cut" THEN "smartcut" ELSE "ffmpeg trim",
                       k, "worker")]

\* the processes of a job that runs to its end
ExpectedProcesses ==
  <<Proc("ffprobe", 0, "worker")>>
    \o (IF settings.autocrop THEN <<Proc("ffmpeg cropdetect", 0, "worker")>> ELSE <<>>)
    \o ExpectedTrims(total, settings.video_mode)
    \o (IF settings.merge THEN <<Proc("ffmpeg concat", 0, "worker")>> ELSE <<>>)

\* the events of the job without the progress values and the step texts of
\* crop detection and of the clips
Milestones ==
  SelectSeq(events, LAMBDA e : \/ e.signal \in {"clip_started", "finished", "error"}
                               \/ e = Emit("step_changed", <<"Merging all clips...">>))

ExpectedMilestones ==
  [k \in 1..total |-> Emit("clip_started", <<k, total>>)]
    \o (IF settings.merge THEN <<Emit("step_changed", <<"Merging all clips...">>)>>
        ELSE <<>>)
    \o <<Emit("finished", <<IF settings.merge THEN OutputFile ELSE OutputDir>>)>>

\* C17: a job of N segments that is not cancelled and meets no failure runs
\* the probe, crop detection only with autocrop, the trims of segments 1..N
\* in order, each after its clip_started(i, N), a merge only with merge, and
\* then emits finished: N trims, and one concatenation when merging.
C17_JobSequence ==
  /\ JobExists =>
       /\ Len(Emitted("clip_started")) - Len(Trims(launched)) \in
            (IF pc \in {"trim"} THEN {1} ELSE IF Failed THEN {0, 1} ELSE {0})
       /\ Len(SelectSeq(launched, LAMBDA p : p.tool = "ffmpeg concat"))
            <= Len(SelectSeq(events,
                             LAMBDA e : e = Emit("step_changed", <<"Merging all clips...">>)))
       /\ Emitted("finished") # <<>> => pc = "done"
  /\ pc = "done" /\ ~is_cancelled /\ ~Failed =>
       /\ ByWorker(launched) = ExpectedProcesses
       /\ Milestones = ExpectedMilestones

\* two segments were merged: clip_started(1, 2), clip_started(2, 2), the
\* merge step, finished with the merged file
C17_Witness ==
  /\ pc = "done" /\ ~is_cancelled
  /\ total = 2 /\ settings.merge /\ settings.video_mode = "copy"
  /\ Milestones = <<Emit("clip_started", <<1, 2>>), Emit("clip_started", <<2, 2>>),
                    Emit("step_changed", <<"Merging all clips...">>),
                    Emit("finished", <<OutputFile>>)>>
  /\ Len(Trims(launched)) = 2

\* the check before segment num
SegmentChecks(num) ==
  SelectSeq(checks, LAMBDA c : c.at = "segment" /\ c.clip = num)

\* C18: the flag is read before every segment's trim; when it is set at the
\* check before segment i the job returns "Cancelled" and starts neither the
\* trim of segment i or of a later one nor a merge.
C18_CancelCheckedBeforeEachTrim ==
  /\ \A k \in 1..Len(launched) :
       IsTrim(launched[k]) =>
         SegmentChecks(launched[k].clip) = <<[at |-> "segment",
                                              clip |-> launched[k].clip,
                                              value |-> FALSE]>>
  /\ \A k \in 1..Len(checks) :
       checks[k].at = "segment" /\ checks[k].value =>
         /\ k = Len(checks)
         /\ result = "Cancelled"
         /\ pc \in {"return", "done"}
         /\ \A j \in 1..Len(launched) :
              /\ IsTrim(launched[j]) => launched[j].clip < checks[k].clip
              /\ launched[j].tool # "ffmpeg concat"

\* the flag was found set at the check before segment 2, after the trim of
\* segment 1
C18_Witness ==
  /\ pc = "done"
  /\ Len(checks) = 2
  /\ checks[2] = [at |-> "segment", clip |-> 2, value |-> TRUE]
  /\ Len(Trims(launched)) = 1
  /\ result = "Cancelled"

\* C19: a job that ends because of cancellation emits finished("Cancelled").
C19_CancelledIsReported ==
  pc = "done" /\ result = "Cancelled" =>
    Emit("finished", <<"Cancelled">>) \in Range(events)

\* C20: once the flag is set, the worker starts no trim and no merge.
C20_NoStartAfterCancel ==
  [][is_cancelled => TrimsAndMerges(launched') = TrimsAndMerges(launched)]_vars

\* what a call of stop may change: nothing of the job but the flag
JobButFlag == <<settings, pc, clip_index, lines_read, crop_params, launched, events,
                result, checks, files, calls>>

\* C21: ExportWorker.stop is idempotent and can be called before run has
\* begun, while the job runs and after it ended: a second call leaves the
\* flag as the first did, a step that changes the flag changes nothing else
\* of the job, the flag once set is never cleared, and a job whose flag was
\* set before run began starts no trim.
C21_StopIdempotent ==
  /\ [](ExportWorker_stop(ExportWorker_stop(is_cancelled))
          = ExportWorker_stop(is_cancelled))
  /\ [][is_cancelled => is_cancelled']_vars
  /\ [][is_cancelled' # is_cancelled => UNCHANGED JobButFlag]_vars
  /\ [](pc = "run" /\ is_cancelled => [](Trims(launched) = <<>>))

\* the flag was found set at the first check and the job has ended at it
\* with no trim started
C21_Witness ==
  /\ pc = "done"
  /\ is_cancelled
  /\ checks = <<[at |-> "segment", clip |-> 1, value |-> TRUE]>>
  /\ result = "Cancelled"
  /\ Trims(launched) = <<>>

\* the calls made to one function of the engine
CallsOf(fn) == SelectSeq(calls, LAMBDA c : c.fn = fn)

\* merge_videos was called, and its concatenation is running
MergeCalled == CallsOf("merge_videos") # <<>>
Merging == pc = "merging"

\* C22: the manifest merge_videos writes exists only while its concatenation
\* runs: once merge_videos has returned or raised (exit code zero, exit
\* code non-zero, tool not found) the manifest is gone.
C22_ManifestRemoved ==
  /\ ManifestFile \in files => Merging /\ MergeCalled
  /\ MergeCalled /\ ~Merging => ManifestFile \notin files
  /\ Merging => ManifestFile \in files

\* the concatenation exited non-zero: merge_videos raised and the manifest
\* it had written is gone
C22_Witness ==
  /\ pc = "done"
  /\ MergeCalled
  /\ Proc("ffmpeg concat", 0, "worker") \in Range(launched)
  /\ Emit("error", <<"Error during final merge">>) \in Range(events)
  /\ ManifestFile \notin files

\* the error ExportWorker.run reports for a trim of segment num that exited
\* non-zero
TrimFailureOf(num) ==
  { Emit("error", <<"FFmpeg failed for segment " \o ToString(num)>>),
    Emit("error", <<"Error during smartcut for clip " \o ToString(num)>>) }
TrimFailedAt(num) == \E e \in TrimFailureOf(num) : e \in Range(events)

\* C23: when the trim of segment i exits non-zero the job ends with error:
\* no trim of a later segment and no merge is started, and finished is not
\* emitted.
C23_FailedTrimAborts ==
  \A num \in 1..MaxClips :
    TrimFailedAt(num) =>
      /\ pc = "done"
      /\ Len(Emitted("error")) = 1
      /\ Last(events) \in TrimFailureOf(num)
      /\ Emitted("finished") = <<>>
      /\ result = ""
      /\ \A k \in 1..Len(launched) :
           /\ IsTrim(launched[k]) => launched[k].clip <= num
           /\ launched[k].tool # "ffmpeg concat"

\* the trim of the first of two segments of a merging job exited non-zero
C23_Witness ==
  /\ TrimFailedAt(1)
  /\ total = 2
  /\ settings.merge
  /\ pc = "done"
  /\ Len(Trims(launched)) = 1

\* C24: within one segment of a re-encode or ffv1 trim every emitted
\* progress percentage lies in 0..100 and the emitted sequence never
\* decreases, whatever elapsed times the tool reports. Two progress events
\* with no other event between them belong to the trim of one segment.
C24_ProgressMonotone ==
  JobExists /\ settings.video_mode \in {"re-encode", "ffv1"} =>
    /\ \A k \in 1..Len(events) :
         events[k].signal = "progress_updated" => events[k].args[1] \in 0..100
    /\ \A k \in 1..(Len(events) - 1) :
         events[k].signal = "progress_updated"
           /\ events[k + 1].signal = "progress_updated"
           => events[k].args[1] <= events[k + 1].args[1]

(* ----------------------- export request properties --------------------- *)
\* C25: at most one export job runs at any time: an export request made
\* while a job is active starts no second job beside it.
C25_OneJobAtATime == Cardinality(Running) <= 1

(* ---------------------- store during export properties ----------------- *)
\* the trims the job has called for, in order
TrimCalls == CallsOf("trim_video_segment")

\* the store no longer holds what the job was given
StoreEdited == SegmentsRaw(segments) # settings.segments_raw

\* C26: the frame ranges a job trims are those of the list built when the
\* job was created: the list is the store's at that moment, it does not
\* change while the job exists, and the k-th trim is that of its k-th
\* range, whatever add, delete, update, merge, import, undo or redo does to
\* the store meanwhile; a job that ends with finished has trimmed each range
\* once.
C26_JobWorksOnSnapshot ==
  /\ [][pc = "idle" /\ pc' # "idle" => settings'.segments_raw = SegmentsRaw(segments)]_vars
  /\ [][pc # "idle" => settings' = settings]_vars
  /\ [](\A k \in 1..Len(TrimCalls) :
          /\ TrimCalls[k].clip = k
          /\ k <= Len(settings.segments_raw)
          /\ TrimCalls[k].range = settings.segments_raw[k])
  /\ [](Emitted("finished") # <<>> /\ result # "Cancelled"
          => Len(TrimCalls) = Len(settings.segments_raw))

\* the store was edited while the job ran, and the job has trimmed the two
\* ranges it was given
C26_Witness ==
  /\ pc = "done"
  /\ Emitted("finished") # <<>>
  /\ StoreEdited
  /\ undo_stack # <<>>
  /\ Len(TrimCalls) = 2
  /\ TrimCalls[2].range = <<100, 200>>

(* ------------------------ export job properties, 2 --------------------- *)
\* the trims called for so far have all been given the crop filter and the
\* mapping directives the job holds
SameForEveryTrim ==
  \A k \in 1..Len(TrimCalls) :
    /\ TrimCalls[k].crop_filter = crop_params
    /\ TrimCalls[k].mapping_args = mapping_args

\* C27: detect_black_bars is called at most once in a job, and only with
\* autocrop; generate_ffmpeg_mapping_args is called at most once, and once
\* before any trim; every trim of the job is given the same crop filter and
\* the same mapping directives, those computed before the loop.
C27_CropAndMappingOnce ==
  /\ Len(CallsOf("detect_black_bars")) <= (IF settings.autocrop THEN 1 ELSE 0)
  /\ Len(SelectSeq(launched, LAMBDA p : p.tool = "ffmpeg cropdetect"))
       <= Len(CallsOf("detect_black_bars"))
  /\ Len(CallsOf("generate_ffmpeg_mapping_args")) <= 1
  /\ TrimCalls # <<>> \/ Emitted("finished") # <<>>
       => /\ Len(CallsOf("generate_ffmpeg_mapping_args")) = 1
          /\ settings.autocrop => Len(CallsOf("detect_black_bars")) = 1
          /\ mapping_args = generate_ffmpeg_mapping_args(all_streams, selected_track_ids,
                                                         lang_priority)
  /\ SameForEveryTrim
  /\ \A k \in 1..Len(calls) :
       calls[k].fn \in {"detect_black_bars", "generate_ffmpeg_mapping_args"}
         => \A j \in 1..k : calls[j].fn # "trim_video_segment"

\* two segments were trimmed with the crop the one detection pass found
C27_Witness ==
  /\ pc = "done"
  /\ settings.autocrop
  /\ Len(TrimCalls) = 2
  /\ TrimCalls[1].crop_filter = "crop=16:9:0:0"
  /\ TrimCalls[2].crop_filter = "crop=16:9:0:0"
  /\ TrimCalls[2].mapping_args = mapping_args
  /\ Len(CallsOf("detect_black_bars")) = 1
  /\ Len(CallsOf("generate_ffmpeg_mapping_args")) = 1

\* the step text of a detection that found a geometry
DetectedText(e) ==
  e.signal = "step_changed" /\ e.args[1] \in {"Detected crop: " \o o : o \in CropOutcomes}

\* the cropdetect run of the job ended with no geometry in its output
CropMissed ==
  /\ settings.autocrop
  /\ Proc("ffmpeg cropdetect", 0, "worker") \in Range(launched)
  /\ \A k \in 1..Len(events) : ~DetectedText(events[k])

\* C28: when the cropdetect run gives no crop geometry (its exit code is not
\* looked at) the job does not fail at the detection: it goes on to the
\* mapping and the trims, and no trim is given a crop filter.
C28_NoCropFoundGoesOn ==
  /\ [][pc = "crop" /\ launched' # launched /\ CropMissed'
          => /\ pc' = "map"
             /\ crop_params' = "None"
             /\ Len(Emitted("error")') = Len(Emitted("error"))]_vars
  /\ [](CropMissed =>
          /\ pc # "crop" => crop_params = "None"
          /\ \A k \in 1..Len(TrimCalls) : filter_cmd(TrimCalls[k].crop_filter) = <<>>)

\* a job with autocrop whose detection found nothing has trimmed its two
\* segments and ended with finished
C28_Witness ==
  /\ CropMissed
  /\ pc = "done"
  /\ Len(TrimCalls) = 2
  /\ TrimCalls[2].crop_filter = "None"
  /\ Emitted("finished") # <<>>

\* what a job that ran to its end returns
ExpectedResult == IF settings.merge THEN OutputFile ELSE OutputDir

\* C29: run_powertrim_job returns the path of the merged file when merging
\* and the output directory when not, after the trims of all segments (and
\* the concatenation when merging); it returns "Cancelled" only when one of
\* its checks found the flag set, and finished carries what it returned.
C29_ResultPath ==
  /\ result \in {"", "Cancelled", ExpectedResult}
  /\ result = "Cancelled" =>
       /\ checks # <<>>
       /\ Last(checks).value
  /\ result = ExpectedResult =>
       /\ Len(TrimCalls) = total
       /\ \A k \in 1..Len(checks) : ~checks[k].value
       /\ settings.merge <=> Proc("ffmpeg concat", 0, "worker") \in Range(launched)
  /\ \A k \in 1..Len(events) :
       events[k].signal = "finished" => events[k].args = <<ExpectedResult>>

\* a merging job of two segments has returned the merged file
C29_Witness ==
  /\ pc = "done"
  /\ total = 2
  /\ settings.merge
  /\ result = OutputFile
  /\ Emit("finished", <<OutputFile>>) \in Range(events)

\* the files of the temporary merge directory that exist, and the directory
TempFiles == {f \in files : f.dir = TempDir \/ f = TempDirEntry}

\* the job has left run_powertrim_job, by return or by an exception
JobEnded == pc \in {"return", "done"}

\* C30: a job of separate clips deletes nothing: the file of every trim that
\* has ended stays, through a later failure or cancellation. When a merging
\* job ends, by success, failure or cancellation, its temporary directory,
\* the clips in it and the manifest are gone.
C30_ClipsKeptTempRemoved ==
  /\ [][JobExists /\ ~settings.merge => files \subseteq files']_vars
  /\ [](JobExists /\ ~settings.merge =>
          \A k \in 1..Len(TrimCalls) :
            Proc("ffmpeg trim", k, "worker") \in Range(launched)
              \/ Proc("smartcut", k, "worker") \in Range(launched)
              => ClipFile(k) \in files)
  /\ [](JobExists /\ settings.merge /\ JobEnded =>
          /\ TempFiles = {}
          /\ ManifestFile \notin files)
  /\ [](JobExists /\ settings.merge /\ pc \in {"loop", "trim", "trimming", "merge_check",
                                                "merge", "merging"}
          => TempDirEntry \in files)

\* a merging job was cancelled after its two trims: the directory that held
\* the two clips is gone
C30_Witness ==
  /\ pc = "done"
  /\ settings.merge
  /\ result = "Cancelled"
  /\ Len(Trims(launched)) = 2
  /\ files = {}

\* a job of separate clips whose second trim failed: the first clip stays
SeparateClipKept ==
  /\ pc = "done"
  /\ ~settings.merge
  /\ TrimFailedAt(2)
  /\ ClipFile(1) \in files

(* ------------------------ undo manager properties, 2 ------------------- *)
\* C31: undo() on a non-empty undo stack pops the last command, applies its
\* undo and pushes it on the redo stack; redo() on a non-empty redo stack
\* pops the last command, executes it and pushes it on the undo stack; on
\* an empty stack either call leaves the store and both stacks as they
\* were. Neither call changes the number of commands the two stacks hold.
C31_UndoRedoOneCommand ==
  [][ /\ last'.op = "undo" =>
           IF undo_stack # <<>>
           THEN LET r == Command_undo(Last(undo_stack), segments)
                IN  /\ undo_stack' = Front(undo_stack)
                    /\ redo_stack' = Append(redo_stack, r.cmd)
                    /\ r.cmd = Last(undo_stack)
                    /\ segments' = r.segs
                    /\ last'.cmd = Last(undo_stack)
           ELSE UNCHANGED <<segments, undo_stack, redo_stack>>
      /\ last'.op = "redo" =>
           IF redo_stack # <<>>
           THEN LET r == Command_execute(Last(redo_stack), segments)
                IN  /\ redo_stack' = Front(redo_stack)
                    /\ undo_stack' = Append(undo_stack, r.cmd)
                    /\ segments' = r.segs
                    /\ last'.cmd = Last(redo_stack)
           ELSE UNCHANGED <<segments, undo_stack, redo_stack>>
      /\ last'.op \in {"undo", "redo"} =>
           Len(undo_stack') + Len(redo_stack') = Len(undo_stack) + Len(redo_stack)
    ]_vars

\* the later of two commands was undone: the earlier one is still on the
\* undo stack
C31_Witness ==
  /\ last.op = "undo"
  /\ last.cmd # NoCommand
  /\ Len(undo_stack) = 1
  /\ redo_stack = <<last.cmd>>
  /\ undo_stack[1] # last.cmd


(* --------------------------- job properties, 4 ------------------------- *)
\* the message of the frame rate check
NoFrameRateError ==
  Emit("error", <<"Frame mode selected, but could not determine frame rate.">>)

\* the probe returned frame rate 0 to a job in frames
FrameRateUnknown == settings.mode = "frames" /\ frame_rate = 0

\* C32: a job whose segments are frame indices and whose probed frame rate
\* is 0 is rejected with the validation error of the frame rate check, and
\* the worker has launched nothing but the probe: no crop detection, no
\* trim, no merge, and no call of the engine functions that run them.
C32_NoFrameRateRejected ==
  /\ FrameRateUnknown =>
       /\ pc = "done"
       /\ Emitted("error") = <<NoFrameRateError>>
       /\ Emitted("finished") = <<>>
       /\ ByWorker(launched) = <<Proc("ffprobe", 0, "worker")>>
       /\ calls = <<>>
       /\ files = {}
  /\ NoFrameRateError \in Range(events) => FrameRateUnknown

C32_Witness ==
  /\ FrameRateUnknown
  /\ settings.autocrop /\ settings.merge
  /\ Len(settings.segments_raw) = MaxClips
  /\ NoFrameRateError \in Range(events)


\* the concatenation was started
ConcatStarted == \E i \in 1..Len(launched) : launched[i].tool = "ffmpeg concat"

\* the clips of the N segments of the job, in the order of the segments
AllClips == [num \in 1..total |-> ClipFile(num)]

\* the trims of the log are those of clips 1 to n, one each, in this order
TrimmedUpTo(n) ==
  /\ Len(Trims(launched)) = n
  /\ \A k \in 1..n : Trims(launched)[k].clip = k

\* C33: merge_videos is called only by a job asked to merge, and only when
\* the trims of all N segments have been started and have returned; the
\* manifest it writes lists the N clips of the segments, each once, in the
\* order of the segments. A concatenation runs only on such a manifest.
C33_MergeAfterAllTrims ==
  /\ MergeCalled =>
       /\ settings.merge
       /\ Len(CallsOf("merge_videos")) = 1
       /\ TrimmedUpTo(total)
       /\ clip_index = total
       /\ Len(TrimCalls) = total
       /\ manifest = AllClips
       /\ \A j, k \in 1..Len(manifest) : manifest[j] = manifest[k] => j = k
  /\ ~MergeCalled => manifest = <<>>
  /\ ConcatStarted => MergeCalled
  /\ pc \in {"merge", "merging"} => settings.merge /\ clip_index = total

C33_Witness ==
  /\ Merging /\ ConcatStarted
  /\ total = MaxClips
  /\ manifest = <<ClipFile(1), ClipFile(2)>>
  /\ ClipFile(1) # ClipFile(2)


\* the percentages emitted so far
Percentages == [k \in 1..Len(Emitted("progress_updated")) |->
                  Emitted("progress_updated")[k].args[1]]

\* the trims that returned after their tool exited with code zero: under
\* smart-cut a trim returns in no other way
SmartcutSucceeded == clip_index

\* C34: a job in copy mode emits no percentage progress at all. A job in
\* smart-cut mode emits no percentage but 100, one for each segment whose
\* smartcut run exited with code zero and at the moment it did: a run that
\* fails or a tool that is missing emits none, nor does a run in flight.
C34_ProgressOfCopyAndSmartcut ==
  /\ JobExists /\ settings.video_mode = "copy" => Percentages = <<>>
  /\ JobExists /\ settings.video_mode = "smart-cut" =>
       /\ Percentages = [k \in 1..SmartcutSucceeded |-> 100]
       /\ pc = "trimming" => Len(Percentages) = Len(Trims(launched)) - 1
       /\ \A num \in 1..total :
            Emit("error", <<"Error during smartcut for clip " \o ToString(num)>>)
              \in Range(events) => Len(Percentages) = num - 1
       /\ Emit("error", <<"smartcut command not found.">>) \in Range(events) =>
            Len(Percentages) = Len(TrimCalls) - 1

C34_Witness ==
  /\ settings.video_mode = "smart-cut"
  /\ Percentages = <<100>>
  /\ Emit("error", <<"Error during smartcut for clip 2">>) \in Range(events)


\* the step text that follows clip_started(num, total)
ClipStepText(num) ==
  LET of_total == ToString(num) \o " of " \o ToString(total)
  IN  IF settings.merge
      THEN "Processing clip " \o of_total \o "..."
      ELSE "Exporting clip " \o of_total \o ": "
             \o format_output_filename(settings.output_template, num).text
             \o video_extension(settings.video_mode)

\* the clips announced so far
Announced == Len(Emitted("clip_started"))

\* the step adds a process of a trim, a percentage
TrimStarts == Len(Trims(launched')) > Len(Trims(launched))
PercentageEmitted ==
  /\ Len(events') > Len(events)
  /\ \E i \in Len(events) + 1..Len(events') : events'[i].signal = "progress_updated"

\* C35: clip_started carries the indices 1, 2, ... in this order without a
\* gap, never more than N of them, and the same N in each; each is followed
\* at once by the step text of its clip. When the trim of segment i starts,
\* and whenever a percentage is emitted during it, clip_started(i, N) and
\* its step text are the last announcement emitted.
C35_ClipAnnouncedFirst ==
  /\ [](JobExists =>
          /\ Announced <= total
          /\ Emitted("clip_started")
               = [num \in 1..Announced |-> Emit("clip_started", <<num, total>>)]
          /\ \A i \in 1..Len(events) :
               events[i].signal = "clip_started" =>
                 /\ i < Len(events)
                 /\ events[i + 1] = Emit("step_changed",
                                         <<ClipStepText(events[i].args[1])>>)
          /\ Len(Trims(launched)) <= Announced
          /\ Len(TrimCalls) <= Announced)
  /\ [][TrimStarts =>
          /\ Announced = clip_index + 1
          /\ Trims(launched')[Len(Trims(launched'))].clip = Announced
          /\ Emitted("progress_updated") = Emitted("progress_updated")']_vars
  /\ [][PercentageEmitted =>
          /\ pc = "trimming"
          /\ Announced = clip_index + 1
          /\ Announced' = Announced]_vars

C35_Witness ==
  /\ Announced = MaxClips
  /\ total = MaxClips
  /\ ~settings.merge
  /\ Len(Emitted("progress_updated")) > 2
  /\ pc = "trimming"


(* -------------------------- cancellation, 2 ---------------------------- *)
\* the Cancel button of the status dialog was pressed and the call of stop
\* it queued has not run yet
CancelPending == stop_queued

\* C36: a cancel request made through the status dialog while the worker
\* executes the job has set the flag by the next check at a segment
\* boundary, so that the next segment's trim does not start: no check at the
\* head of the loop lets the job go on to a trim while the request is
\* waiting.
C36_DialogCancelStopsNextTrim ==
  [][CancelPending /\ pc = "loop" => pc' # "trim"]_vars


\* the step ends the trim in flight: trim_video_segment returns or raises
TrimEnds == pc = "trimming" /\ pc' # "trimming"

\* the step calls process.terminate() on the trim in flight
TerminateCalled ==
  /\ Len(calls') = Len(calls) + 1
  /\ calls'[Len(calls')] = Terminate(clip_index + 1)

\* C37: in every video mode, smart-cut included, a trim in flight while the
\* flag is set does not run to its own end: the step that ends it is a
\* terminate() of the runner. Left aside is a process under Popen that
\* exits before it writes another stderr line, which gives the runner no
\* occasion to look at the flag; a smartcut run has no such excuse.
C37_InFlightTrimTerminated ==
  [][TrimEnds /\ is_cancelled /\ settings.video_mode = "smart-cut"
       => TerminateCalled]_vars


\* the terminal events the worker emitted: finished(result), error(message)
TerminalEvents == SelectSeq(events, LAMBDA e : e.signal \in {"finished", "error"})

\* C38: a started job delivers exactly one terminal event, finished(result)
\* or failed(message): never two, and once ExportWorker.run has returned,
\* one, whatever the calls of stop were.
C38_OneTerminalEvent ==
  /\ Len(TerminalEvents) <= 1
  /\ pc = "done" => Len(TerminalEvents) = 1


\* run_powertrim_job has not yet read the flag at the check that follows
\* the last trim of a merging job
BeforeMergeCheck ==
  pc \in {"run", "crop", "map", "loop", "trim", "trimming", "merge_check"}

\* a trim of the job was cut short by terminate()
TrimCutShort == CallsOf("process.terminate") # <<>>

\* nothing of the merge has happened
NoMerge ==
  /\ ~MergeCalled
  /\ ~ConcatStarted
  /\ manifest = <<>>
  /\ ManifestFile \notin files
  /\ result # final_path
  /\ pc \notin {"merge", "merging"}

\* C39: in a merging job, once the flag is set at any moment up to the check
\* that follows the last trim, merge_videos is never called and no
\* concatenation is ever started; a job one of whose trims was cut short by
\* cancellation never merges, so that clip is never handed to the merge and
\* no merged output is written.
C39_NoMergeAfterCancel ==
  /\ [](JobExists /\ settings.merge /\ is_cancelled /\ BeforeMergeCheck => []NoMerge)
  /\ [](JobExists /\ settings.merge /\ TrimCutShort => NoMerge)

C39_Witness ==
  /\ settings.merge
  /\ TrimCutShort
  /\ calls[Len(calls)] = Terminate(total)
  /\ total = MaxClips
  /\ result = "Cancelled"
  /\ pc = "done"


\* C40: a trim that was terminated because the flag was seen during it does
\* not make the job fail: no error is emitted, and run_powertrim_job returns
\* "Cancelled".
C40_TerminatedTrimIsCancelled ==
  TrimCutShort =>
    /\ ~Failed
    /\ JobEnded => result = "Cancelled"

====
